---- MODULE Spec2Model ----
(***************************************************************************)
(* The job pipeline of scribble: the Job and Session rows of the database, *)
(* the background worker (worker.py, JobManager) that polls, claims and    *)
(* executes Jobs, and the foreground request handlers of app.py that       *)
(* create and retry Jobs.                                                  *)
(*                                                                         *)
(* The database rows are the shared state.  The worker is a sequential     *)
(* process whose position is pc; it holds the claimed Job as an ORM object *)
(* whose log text is read into memory (wlogs) and written back at the next *)
(* commit, after which it is read again.  A foreground handler is one      *)
(* short transaction and is one action.  A process restart (Crash) loses   *)
(* the worker's memory and keeps the database.  Database commits are taken *)
(* to succeed, the archive directory to exist, and no Session is deleted   *)
(* while it has Jobs.                                                      *)
(*                                                                         *)
(* Spec is the pipeline, SpecLive the pipeline with the worker scheduled   *)
(* fairly, SpecEntry the pipeline beside a second process that imported    *)
(* app.py.  SpecSummary is the summary stage of one Job in every           *)
(* environment, SpecTranscribe is run_transcription file by file with      *)
(* save_user_transcript, SpecRestore is ensure_files_exist, SpecUpload is  *)
(* the upload route (where a commit may fail).  SpecCost, SpecRunSummary,  *)
(* SpecHeader, SpecDiscord, SpecScripts and SpecLookup apply one function  *)
(* of the engines to arguments of its own.  Each holds the variables of    *)
(* the others still.                                                       *)
(***************************************************************************)
EXTENDS Integers, Sequences, FiniteSets, TLC

VARIABLES jobs, sessions, pc, cur, wlogs, events,
          env, sent, llmlog,
          audio, glob, tjob, tpc, master, rows, disk, text, tlog, hist,
          zip, dir, restore,
          costing, recap, discord, runner,
          lookup, up, second

\* What the summary stage meets and leaves outside the Job and Session
\* rows: the campaign's configuration and the backend's answer (env), the
\* scripts it has run and the webhook posts it has made (sent), the LLMLog
\* rows (llmlog).
stageVars == <<env, sent, llmlog>>

\* One Session's transcription seen from inside run_transcription: the
\* audio files and what the speech model hears in them (audio), the files
\* the run has still to take (glob), the Job's target and record (tjob),
\* the run's position (tpc), the list master_transcript (master), the
\* Transcript rows (rows), the per-speaker files (disk), the Session's
\* transcript text (text), the run's log (tlog), the kind of run that
\* wrote the transcript text (hist).
txVars == <<audio, glob, tjob, tpc, master, rows, disk, text, tlog, hist>>

\* One call of ensure_files_exist: the archive's members (zip), the names in
\* the Session's directory (dir), the call and what it came to (restore).
rsVars == <<zip, dir, restore>>

\* The helper functions of llm_engine.py, each applied to arguments of its
\* own: one call of calculate_cost, its arguments and what it returned
\* (costing); one summary on its way from run_summary's header to the
\* statistics the session page reads back from the stored text (recap);
\* one call of send_discord, the messages it has still to post and those
\* it has posted (discord); one call of run_campaign_scripts for a
\* run_scripts Job, the campaign's scripts, the position in the list, the
\* Job's log and status (runner).
fnVars == <<costing, recap, discord, runner>>

\* What lies around the pipeline: one script name of a campaign on its way
\* from the stored value to the path the runner makes executable and runs
\* (lookup); one request to the upload route, its directory and the rows
\* it has stored (up); a second process that has imported app.py (second).
auxVars == <<lookup, up, second>>

\* State of the engines that the pipeline holds still.
engineVars == <<txVars, rsVars, fnVars, auxVars>>

\* No call of a helper function yet.
NoCosting ==
    [prompt_tokens |-> 0, completion_tokens |-> 0, llm_input_cost |-> <<>>,
     llm_output_cost |-> <<>>, at |-> "off", cost |-> 0]

NoRecap ==
    [provider |-> "", model |-> "", duration |-> 0, prompt |-> 0,
     completion |-> 0, total |-> 0, summary |-> <<>>, text |-> <<>>,
     parsed |-> <<>>, at |-> "off"]

NoDiscord ==
    [summary_text |-> <<>>, webhook_url |-> FALSE, thread |-> FALSE,
     todo |-> <<>>, posted |-> <<>>, at |-> "off"]

NoRunner ==
    [scripts |-> <<>>, transcript_text |-> FALSE, summary_text |-> FALSE,
     files_to_cleanup |-> <<>>, wrote |-> {}, present |-> {}, k |-> 0,
     logs |-> <<>>,
     status |-> "pending", at |-> "off"]

NoLookup == [value |-> <<>>, chmod |-> <<>>, run |-> <<>>, at |-> "off"]

NoUpload ==
    [file |-> "", campaign_id |-> FALSE, session_number |-> "",
     max_sess |-> <<>>, final_session_num |-> <<>>, dir |-> FALSE, session |-> FALSE, job |-> FALSE, extracted |-> FALSE,
     at |-> "off"]

AuxIdle ==
    /\ lookup = NoLookup
    /\ up = NoUpload
    /\ second = "off"

FnIdle ==
    /\ costing = NoCosting
    /\ recap = NoRecap
    /\ discord = NoDiscord
    /\ runner = NoRunner
    /\ AuxIdle

pipeVars == <<jobs, sessions, pc, cur, wlogs, events>>

others == <<stageVars, engineVars>>

vars == <<jobs, sessions, pc, cur, wlogs, events, stageVars, engineVars>>

\* ---------------------------------------------------------------- bounds
\* How many user re-queues, retries and process restarts a behaviour holds,
\* and how many runs of the transcription engine, failures of its work on
\* a file and edits of its output.
MaxEvents == 2

\* ------------------------------------------------------------ vocabulary
\* The archives a user uploads; each becomes one Session.
Uploads == {"u1"}

Speakers == {"alice"}

None == "<none>"

Expired == <<"<expired>">>

\* A step tag is a tuple: <<"transcribe">>, <<"transcribe", speaker>> for
\* the text 'transcribe:<speaker>', <<"summarize">>, ...
StepTag(step) == step[1]

JobIds == 1..Len(jobs)

SessionIds == DOMAIN sessions

\* ------------------------------------------------------------ Job model
\* Job.created_at, default=datetime.utcnow, here the count of rows so far.
CreatedNow == Len(jobs) + 1

\* models.py Job: a new row; status and logs as its creator passes them.
NewJob(sid, step, logs) ==
    [session |-> sid, step |-> step, status |-> "pending", logs |-> logs,
     created_at |-> CreatedNow]

SetSession(sid, field, value) ==
    [sessions EXCEPT ![sid] = [@ EXCEPT ![field] = value]]

\* ---------------------------------------------------- reset_stuck_jobs
\* A scan that also takes the failed Jobs.
IsStuck_WithError(job) == job.status \in {"processing", "error"}

IsStuck(job) == job.status = "processing"

\* A reset that forgets the log marker.
ResetJob_NoMarker(job) == [job EXCEPT !.status = "pending"]

ResetJob(job) ==
    [job EXCEPT !.status = "pending", !.logs = Append(@, "SystemRestart")]

ResetStuckJobs ==
    /\ pc = "boot"
    /\ jobs' = [i \in JobIds |-> IF IsStuck(jobs[i]) THEN ResetJob(jobs[i])
                                 ELSE jobs[i]]
    /\ pc' = "poll"
    /\ UNCHANGED <<sessions, cur, wlogs, events>>
    /\ UNCHANGED others

\* ------------------------------------------------------------ run loop
PendingJobs == {i \in JobIds : jobs[i].status = "pending"}

\* The query with the order reversed.
NewestPending ==
    {i \in PendingJobs :
        \A k \in PendingJobs : jobs[i].created_at >= jobs[k].created_at}

\* Job.query.filter_by(status='pending').order_by(created_at.asc()).first()
OldestPending ==
    {i \in PendingJobs :
        \A k \in PendingJobs : jobs[i].created_at <= jobs[k].created_at}

ClaimedStatus == "processing"

\* worker.py 44-49: the Job is marked and committed, then process_job runs.
Claim ==
    /\ pc = "poll"
    /\ \E j \in OldestPending :
        /\ jobs' = [jobs EXCEPT ![j].status = ClaimedStatus]
        /\ cur' = j
    /\ pc' = "begin"
    /\ UNCHANGED <<sessions, wlogs, events>>
    /\ UNCHANGED others

\* worker.py 50-51.
Sleep ==
    /\ pc = "poll"
    /\ PendingJobs = {}
    /\ pc' = "sleep"
    /\ UNCHANGED <<jobs, sessions, cur, wlogs, events>>
    /\ UNCHANGED others

Wake ==
    /\ pc = "sleep"
    /\ pc' = "poll"
    /\ UNCHANGED <<jobs, sessions, cur, wlogs, events>>
    /\ UNCHANGED others

\* ---------------------------------------------------------- process_job
\* The value `job.logs` has for the worker: its loaded copy, or, after a
\* commit expired it, the stored text read again.
WLogs == IF wlogs = Expired THEN jobs[cur].logs ELSE wlogs

CurSession == jobs[cur].session

\* worker.py 163-173: target_user is None for 'transcribe', the text after
\* 'transcribe:' otherwise.
TargetUser(step) == IF Len(step) > 1 THEN step[2] ELSE None

\* worker.py 166, 212, 232, 239: the branch process_job takes for a step.
Dispatch(step) ==
    CASE StepTag(step) = "transcribe" -> "t_start"
      [] StepTag(step) \in {"summarize", "summarize_only"} -> "summary"
      [] StepTag(step) = "run_scripts" -> "scripts"
      [] StepTag(step) = "post_discord" -> "discord"
      [] OTHER -> "poll"

\* worker.py 157-166: process_job reads the claimed Job and its Session and
\* imports the stage's module.
Begin ==
    /\ pc = "begin"
    /\ wlogs' = jobs[cur].logs
    /\ pc' = Dispatch(jobs[cur].step)
    /\ UNCHANGED <<jobs, sessions, cur, events>>
    /\ UNCHANGED others

\* The worker is back in the loop of run().
Return ==
    /\ pc' = "poll"
    /\ cur' = 0
    /\ wlogs' = Expired

\* worker.py 169-176 and run_transcription 37-49.
TranscribeStart ==
    /\ pc = "t_start"
    /\ LET l1 == IF TargetUser(jobs[cur].step) # None
                 THEN Append(WLogs, "TargetUser") ELSE WLogs
       IN  jobs' = [jobs EXCEPT ![cur].logs = Append(l1, "Starting")]
    /\ wlogs' = Expired
    /\ pc' = "t_run"
    /\ UNCHANGED <<sessions, cur, events>>
    /\ UNCHANGED others

\* worker.py 198-206: what the end of a transcription does to the Job
\* status, to the Session status, and which follow-on Jobs it adds.
AfterTranscribeJobStatus(status, target) ==
    IF target = None THEN status ELSE "completed"

\* An end of transcription that always reports 'Analyzing'.
AfterTranscribeSessionStatus_Always(target) == "Analyzing"

AfterTranscribeSessionStatus(target) ==
    IF target = None THEN "Analyzing" ELSE "Ready"

ChainedJobs(sid, target) ==
    IF target = None
    THEN <<NewJob(sid, <<"summarize">>, <<"QueuedAuto">>)>>
    ELSE <<>>

\* run_transcription 57-163, then worker.py 178-209.  The speech model
\* fails to load (logged, raised), or no audio file is found (raised), or
\* the files are transcribed (a failing file is logged and skipped), the
\* master transcript is saved, the audio is removed when an archive of the
\* upload exists, and the follow-on Job is chained.
TranscribeRun ==
    /\ pc = "t_run"
    /\ \E modelLoads \in BOOLEAN :
        IF ~modelLoads
        THEN /\ jobs' = [jobs EXCEPT ![cur].logs = Append(WLogs, "FATAL")]
             /\ pc' = "raise"
             /\ wlogs' = Expired
             /\ UNCHANGED <<sessions, cur>>
        ELSE IF ~sessions[CurSession].flac
        THEN /\ pc' = "raise"
             /\ wlogs' = Expired
             /\ UNCHANGED <<jobs, sessions, cur>>
        ELSE LET sid == CurSession
                 target == TargetUser(jobs[cur].step)
                 archived == sessions[sid].archive
                 l1 == WLogs \o <<"Found", "Transcribed", "MasterSaved">>
                 l2 == IF archived THEN Append(l1, "Cleanup") ELSE l1
             IN  /\ jobs' = [jobs EXCEPT
                               ![cur].logs = l2,
                               ![cur].status =
                                   AfterTranscribeJobStatus(@, target)]
                            \o ChainedJobs(sid, target)
                 /\ sessions' = [sessions EXCEPT
                        ![sid].status = AfterTranscribeSessionStatus(target),
                        ![sid].transcript = TRUE,
                        ![sid].flac = IF archived THEN FALSE ELSE @]
                 /\ Return
    /\ UNCHANGED events
    /\ UNCHANGED others

\* llm_engine.py 352: the parameters of run_summary; worker.py 218: the
\* keyword the worker passes.  A call binds when every keyword is a parameter.
RunSummaryParams == {"job", "config"}

\* A call that passes the two positional arguments only.
RunSummaryKeywords_None == {}

RunSummaryKeywords == {"post_to_discord_enabled"}

CallBinds(keywords, params) == keywords \subseteq params

\* llm_engine.py 71-310: what a provider call can come to.  The request is
\* answered with success and text, answered with an error status, answered
\* with success and no text, answered with a body that is not JSON, or not
\* answered at all (requests.post raises).
LlmAnswers == {"ok", "http_error", "empty", "not_json", "unreachable"}

\* llm_engine.py 368-375: the providers run_summary knows.
Providers == {"Google", "Anthropic", "OpenAI", "Ollama"}

\* llm_engine.py 126, 190, 254: Google raises on an error status or an
\* empty text, Anthropic and OpenAI on an error status, Ollama on neither.
\* A request that is not answered raises in requests.post (90, 172, 233,
\* 288); a body that is not JSON raises in response.json() (175, 236, 291),
\* and with Google, which catches that (93-95), leaves no text.
ProviderRaises(provider, answer) ==
    \/ answer \in {"not_json", "unreachable"}
    \/ provider = "Google" /\ answer # "ok"
    \/ provider \in {"Anthropic", "OpenAI"} /\ answer = "http_error"

\* llm_engine.py 124, 188, 252, 302: the call reaches log_llm_request.
LogsRow(provider, answer) ==
    /\ answer # "unreachable"
    /\ answer = "not_json" => provider = "Google"

\* llm_engine.py 39-66: log_llm_request adds one row.
LlmLogAfter(log, job, provider, answer) ==
    IF LogsRow(provider, answer)
    THEN Append(log, [job |-> job, answer |-> answer])
    ELSE log

\* llm_engine.py 415: run_summary posts whenever the campaign has a webhook.
PostsToDiscord(webhook, shouldPost) == webhook

\* worker.py 221: the Script Runner follows the plain summarize only.
RunsScripts(step) == StepTag(step) = "summarize"

\* worker.py 212-229 with run_summary, llm_engine.py 352-422.  The call of
\* line 218 is bound first; the body runs only when it binds.
Summarize ==
    /\ pc = "summary"
    /\ IF ~CallBinds(RunSummaryKeywords, RunSummaryParams)
       THEN /\ pc' = "raise"
            /\ UNCHANGED <<jobs, sessions, cur, wlogs, sent, llmlog>>
       ELSE IF ~sessions[CurSession].transcript
       THEN /\ pc' = "raise"
            /\ UNCHANGED <<jobs, sessions, cur, wlogs, sent, llmlog>>
       ELSE IF ProviderRaises(env.provider, env.backend)
       THEN /\ llmlog' = LlmLogAfter(llmlog, cur, env.provider, env.backend)
            /\ wlogs' = WLogs \o <<"StartingSummary", "LLMError">>
            /\ pc' = "raise"
            /\ UNCHANGED <<jobs, sessions, cur, sent>>
       ELSE LET step == jobs[cur].step
                posts == PostsToDiscord(env.webhook,
                                        StepTag(step) = "summarize")
                runs == RunsScripts(step) /\ env.scripts
            IN /\ llmlog' = LlmLogAfter(llmlog, cur, env.provider,
                                        env.backend)
               /\ sent' = sent
                     \cup (IF posts THEN {<<cur, "webhook">>} ELSE {})
                     \cup (IF runs THEN {<<cur, "script">>} ELSE {})
               /\ jobs' = [jobs EXCEPT
                     ![cur].logs = WLogs
                        \o <<"StartingSummary", "SummaryGenerated">>
                        \o (IF posts THEN <<"SendingDiscord", "Sent">>
                            ELSE <<>>)
                        \o (IF RunsScripts(step)
                            THEN (IF runs THEN <<"Staging", "Running",
                                                "Finished">> ELSE <<>>)
                            ELSE <<"ScriptsSkipped">>),
                     ![cur].status = "completed"]
               /\ sessions' = [sessions EXCEPT
                     ![CurSession].summary = TRUE,
                     ![CurSession].status = "Completed"]
               /\ Return
    /\ UNCHANGED <<events, env, engineVars>>

\* worker.py 231-236 with run_campaign_scripts 61-115: no script configured
\* (return), the working directory cannot be made (raise), staging fails
\* (logged, return), or the script is started.
ScriptsStart ==
    /\ pc = "scripts"
    /\ \E path \in {"none", "mkdir_raises", "stage_fails", "run"} :
        CASE path = "none" ->
               /\ jobs' = [jobs EXCEPT ![cur].status = "completed"]
               /\ Return
          [] path = "mkdir_raises" ->
               /\ wlogs' = Append(WLogs, "Staging")
               /\ pc' = "raise"
               /\ UNCHANGED <<jobs, cur>>
          [] path = "stage_fails" ->
               /\ jobs' = [jobs EXCEPT
                     ![cur].logs = WLogs \o <<"Staging", "StageError">>,
                     ![cur].status = "completed"]
               /\ Return
          [] path = "run" ->
               /\ jobs' = [jobs EXCEPT
                     ![cur].logs = WLogs \o <<"Staging", "Running">>]
               /\ pc' = "s_run"
               /\ wlogs' = Expired
               /\ UNCHANGED cur
    /\ UNCHANGED <<sessions, events>>
    /\ UNCHANGED others

\* run_campaign_scripts 117-150 and worker.py 234-236: the script's result
\* is logged whatever it is, the staged files are removed, the Job completes.
ScriptsEnd ==
    /\ pc = "s_run"
    /\ \E result \in {"Finished", "Failed", "ScriptError"} :
        jobs' = [jobs EXCEPT
                   ![cur].logs = WLogs \o <<result, "CleanupInputs">>,
                   ![cur].status = "completed"]
    /\ Return
    /\ UNCHANGED <<sessions, events>>
    /\ UNCHANGED others

\* llm_engine.py: the names the module defines; worker.py 240 imports
\* send_to_discord from it.
LlmEngineNames ==
    {"calculate_cost", "format_duration", "log_llm_request", "send_google",
     "send_anthropic", "send_openai", "send_ollama", "send_discord",
     "run_summary"}

\* worker.py 238-251.
PostDiscord ==
    /\ pc = "discord"
    /\ IF "send_to_discord" \notin LlmEngineNames
       THEN /\ pc' = "raise"
            /\ UNCHANGED <<jobs, cur, wlogs>>
       ELSE /\ jobs' = [jobs EXCEPT
                  ![cur].logs = Append(WLogs, "DiscordResult"),
                  ![cur].status = "completed"]
            /\ Return
    /\ UNCHANGED <<sessions, events>>
    /\ UNCHANGED others

\* worker.py 253-259: the except clause of process_job.
ErrorStatus == "error"

ErrorLogs(logs) == Append(logs, "CRITICAL")

ErrorSessionStatus == "Error"

HandleError ==
    /\ pc = "raise"
    /\ jobs' = [jobs EXCEPT ![cur].status = ErrorStatus,
                            ![cur].logs = ErrorLogs(WLogs)]
    /\ sessions' = SetSession(CurSession, "status", ErrorSessionStatus)
    /\ Return
    /\ UNCHANGED events
    /\ UNCHANGED others

\* ------------------------------------------------- foreground handlers
\* app.py 764-781: upload creates the Session and its first Job.
Upload(u) ==
    /\ u \notin SessionIds
    /\ \E archived \in BOOLEAN :
        sessions' = [s \in SessionIds \cup {u} |->
            IF s = u
            THEN [status |-> "Processing", flac |-> TRUE, archive |-> archived,
                  transcript |-> FALSE, summary |-> FALSE]
            ELSE sessions[s]]
    /\ jobs' = Append(jobs, NewJob(u, <<"transcribe">>, <<"JobQueued">>))
    /\ UNCHANGED <<pc, cur, wlogs, events>>
    /\ UNCHANGED others

\* app.py 1064-1120: audio on disk, or restored from the archive when the
\* archive is there and the extraction raises nothing.  First, a check
\* that always reports the audio present.
EnsureFilesExist_Always(s, extracts) == TRUE

EnsureFilesExist(s, extracts) == s.flac \/ (s.archive /\ extracts)

\* The audio of an upload as the pipeline sees it: the one file of the one
\* speaker.
SessionAudio == {<<"1", "-", "alice", ".", "flac">>}

\* Where ensure_files_exist ends its search: app.py 1068-1079, 1090-1113,
\* 1119-1120.
RestoredFrom(s) ==
    IF s.flac THEN "disk" ELSE IF s.archive THEN "archive" ELSE "nowhere"

\* app.py 1125-1145: re-transcribe, whole Session or one speaker.  A restore
\* that fails ends the request with a message and nothing stored.
Retranscribe(sid, target) ==
    /\ events < MaxEvents
    /\ \E extracts \in BOOLEAN :
        LET ok == EnsureFilesExist(sessions[sid], extracts)
        IN  /\ restore' = [target |-> IF target = None THEN <<>>
                                      ELSE <<target>>,
                           result |-> ok,
                           from |-> RestoredFrom(sessions[sid]),
                           extracted |->
                               IF ~sessions[sid].flac /\ sessions[sid].archive
                                  /\ extracts
                               THEN SessionAudio ELSE {}]
            /\ IF ok
               THEN /\ jobs' = Append(jobs,
                          NewJob(sid,
                                 IF target = None THEN <<"transcribe">>
                                 ELSE <<"transcribe", target>>,
                                 <<"QueuedByUser">>))
                    /\ sessions' = [sessions EXCEPT
                                       ![sid].status = "Processing",
                                       ![sid].flac = TRUE]
               ELSE UNCHANGED <<jobs, sessions>>
    /\ events' = events + 1
    /\ UNCHANGED <<pc, cur, wlogs>>
    /\ UNCHANGED <<stageVars, txVars, zip, dir, fnVars, auxVars>>

\* app.py 1182-1187.
RerunScripts(sid) ==
    /\ events < MaxEvents
    /\ jobs' = Append(jobs, NewJob(sid, <<"run_scripts">>, <<"QueuedScripts">>))
    /\ events' = events + 1
    /\ UNCHANGED <<sessions, pc, cur, wlogs>>
    /\ UNCHANGED others

\* app.py 1190-1201.
RegenerateSummary(sid) ==
    /\ events < MaxEvents
    /\ sessions[sid].transcript
    /\ jobs' = Append(jobs,
           NewJob(sid, <<"summarize_only">>, <<"QueuedSummary">>))
    /\ sessions' = SetSession(sid, "status", "Processing")
    /\ events' = events + 1
    /\ UNCHANGED <<pc, cur, wlogs>>
    /\ UNCHANGED others

\* app.py 1204-1214.
QueuePostDiscord(sid) ==
    /\ events < MaxEvents
    /\ sessions[sid].summary
    /\ jobs' = Append(jobs,
           NewJob(sid, <<"post_discord">>, <<"QueuedDiscord">>))
    /\ sessions' = SetSession(sid, "status", "Processing")
    /\ events' = events + 1
    /\ UNCHANGED <<pc, cur, wlogs>>
    /\ UNCHANGED others

\* app.py 1007-1014: the user stores a recap text.
SaveRecap(sid) ==
    /\ ~sessions[sid].summary
    /\ sessions' = SetSession(sid, "summary", TRUE)
    /\ UNCHANGED <<jobs, pc, cur, wlogs, events>>
    /\ UNCHANGED others

\* app.py 1275-1285: retry_job, on any Job whatever its status.
RetryStatus == "pending"

\* A retry that starts the log afresh.
RetryLogs_Overwrite(logs) == <<"RetryByUser">>

RetryLogs(logs) == Append(logs, "RetryByUser")

RetrySessionStatus == "Processing"

RetryJob(j) ==
    /\ events < MaxEvents
    /\ jobs' = [jobs EXCEPT ![j].status = RetryStatus,
                            ![j].logs = RetryLogs(@)]
    /\ sessions' = SetSession(jobs[j].session, "status", RetrySessionStatus)
    /\ events' = events + 1
    /\ UNCHANGED <<pc, cur, wlogs>>
    /\ UNCHANGED others

\* The process stops at any point and is started again: app.py 1289-1291
\* starts a new JobManager, whose run() begins with reset_stuck_jobs.
Crash ==
    /\ events < MaxEvents
    /\ pc # "boot"
    /\ pc' = "boot"
    /\ cur' = 0
    /\ wlogs' = Expired
    /\ events' = events + 1
    /\ UNCHANGED <<jobs, sessions>>
    /\ UNCHANGED others

\* ------------------------------------------------------- specification
\* The surroundings: config.py 39 llm_provider 'Google' and config.py 14
\* archive_zip False, a campaign with a webhook and a script, a backend
\* that answers.
DefaultEnv ==
    [provider |-> "Google", backend |-> "ok", webhook |-> TRUE,
     scripts |-> TRUE, archive_zip |-> FALSE]

\* No run of the engine yet.
NoRun == [target |-> None, order |-> <<>>, clean |-> FALSE]

NoHistory == [full |-> FALSE, clean |-> FALSE]

\* The engines at rest, with nothing to work on.
EngineIdle ==
    /\ audio = <<>>
    /\ glob = <<>>
    /\ tjob = NoRun
    /\ tpc = "off"
    /\ master = <<>>
    /\ rows = <<>>
    /\ disk = <<>>
    /\ text = <<>>
    /\ tlog = <<>>
    /\ hist = NoHistory
    /\ zip = [exists |-> FALSE, names |-> <<>>]
    /\ dir = [exists |-> FALSE, names |-> {}]
    /\ restore = [target |-> <<>>, result |-> FALSE, from |-> "none",
                  extracted |-> {}]
    /\ FnIdle

Init ==
    /\ jobs = <<>>
    /\ sessions = <<>>
    /\ pc = "boot"
    /\ cur = 0
    /\ wlogs = Expired
    /\ events = 0
    /\ env = DefaultEnv
    /\ sent = {}
    /\ llmlog = <<>>
    /\ EngineIdle

Next ==
    \/ ResetStuckJobs
    \/ Claim
    \/ Sleep
    \/ Wake
    \/ Begin
    \/ TranscribeStart
    \/ TranscribeRun
    \/ Summarize
    \/ ScriptsStart
    \/ ScriptsEnd
    \/ PostDiscord
    \/ HandleError
    \/ \E u \in Uploads : Upload(u)
    \/ \E sid \in SessionIds, target \in Speakers \cup {None} :
          Retranscribe(sid, target)
    \/ \E sid \in SessionIds : RerunScripts(sid)
    \/ \E sid \in SessionIds : RegenerateSummary(sid)
    \/ \E sid \in SessionIds : QueuePostDiscord(sid)
    \/ \E sid \in SessionIds : SaveRecap(sid)
    \/ \E j \in JobIds : RetryJob(j)
    \/ Crash

Spec == Init /\ [][Next]_vars

\* ------------------------------------------------- the summary stage alone
\* One Session with one pending Job of either summary step, met by every
\* provider, backend answer and campaign configuration.
InitSummary ==
    /\ \E step \in {<<"summarize">>, <<"summarize_only">>},
          hasTranscript \in BOOLEAN :
          /\ jobs = <<[session |-> "u1", step |-> step, status |-> "pending",
                       logs |-> <<"JobQueued">>, created_at |-> 1]>>
          /\ sessions = [u \in Uploads |->
                [status |-> "Analyzing", flac |-> FALSE, archive |-> TRUE,
                 transcript |-> hasTranscript, summary |-> FALSE]]
    /\ pc = "poll"
    /\ cur = 0
    /\ wlogs = Expired
    /\ events = 0
    /\ env \in [provider : Providers, backend : LlmAnswers,
                 webhook : BOOLEAN, scripts : BOOLEAN,
                 archive_zip : {FALSE}]
    /\ sent = {}
    /\ llmlog = <<>>
    /\ EngineIdle

NextSummary ==
    \/ Claim
    \/ Sleep
    \/ Wake
    \/ Begin
    \/ Summarize
    \/ HandleError

SpecSummary == InitSummary /\ [][NextSummary]_vars

\* ------------------------------------------------- run_summary by itself
\* llm_engine.py 352-422 entered with the two arguments it takes, for a Job
\* the worker has claimed: the transcript file is looked for, the provider
\* is called, and the summary with its header is stored and posted to the
\* campaign's webhook; a failure is logged and raised to the caller.
RunSummary ==
    /\ pc = "summary"
    /\ IF ~sessions[CurSession].transcript
       THEN /\ pc' = "raise"
            /\ UNCHANGED <<jobs, sessions, wlogs, sent, llmlog>>
       ELSE IF ProviderRaises(env.provider, env.backend)
       THEN /\ llmlog' = LlmLogAfter(llmlog, cur, env.provider, env.backend)
            /\ wlogs' = WLogs \o <<"StartingSummary", "LLMError">>
            /\ pc' = "raise"
            /\ UNCHANGED <<jobs, sessions, sent>>
       ELSE LET posts == PostsToDiscord(env.webhook, TRUE)
            IN /\ llmlog' = LlmLogAfter(llmlog, cur, env.provider,
                                        env.backend)
               /\ sessions' = SetSession(CurSession, "summary", TRUE)
               /\ sent' = sent
                     \cup (IF posts THEN {<<cur, "webhook">>} ELSE {})
               /\ wlogs' = WLogs
                     \o <<"StartingSummary", "SummaryGenerated">>
                     \o (IF posts THEN <<"SendingDiscord", "Sent">>
                         ELSE <<>>)
               /\ pc' = "returned"
               /\ UNCHANGED jobs
    /\ UNCHANGED <<cur, events, env, engineVars>>

InitRunSummary ==
    /\ \E step \in {<<"summarize">>, <<"summarize_only">>},
          hasTranscript \in BOOLEAN :
          /\ jobs = <<[session |-> "u1", step |-> step,
                       status |-> "processing",
                       logs |-> <<"JobQueued">>, created_at |-> 1]>>
          /\ sessions = [u \in Uploads |->
                [status |-> "Analyzing", flac |-> FALSE, archive |-> TRUE,
                 transcript |-> hasTranscript, summary |-> FALSE]]
    /\ pc = "summary"
    /\ cur = 1
    /\ wlogs = <<"JobQueued">>
    /\ events = 0
    /\ env \in [provider : Providers, backend : LlmAnswers,
                 webhook : BOOLEAN, scripts : BOOLEAN,
                 archive_zip : {FALSE}]
    /\ sent = {}
    /\ llmlog = <<>>
    /\ EngineIdle

NextRunSummary ==
    \/ RunSummary
    \/ HandleError

SpecRunSummary == InitRunSummary /\ [][NextRunSummary]_vars

\* ------------------------------------------------ the transcription engine
\* run_transcription (transcription_engine.py 36-163) on one Session, file
\* by file, and save_user_transcript (app.py 961-985).  A file name and a
\* text are lists of tokens; a text file and a text column are lists of
\* lines, the arguments of "<newline>".join.  Branches the code writes for a
\* failure are taken; a database commit, and a write the code does not
\* guard, are taken to succeed.

\* How many segments the speech model hears in the Session's audio.
MaxSegs == 2

AudioFiles ==
    { <<"1", "-", "alice", ".", "flac">>,
      <<"craig", ".", "flac">>,
      <<"2", "-", "Unknown", ".", "flac">> }

\* segment.start, in tenths of a second.
Starts == {0, 10}

\* segment.text.
Texts == {<<"hi">>, <<" ">>}

Segments == [start : Starts, text : Texts]

SegLists == UNION {[1..n -> Segments] : n \in 0..MaxSegs}

RECURSIVE TotalSegs(_, _)
TotalSegs(a, files) ==
    IF files = {} THEN 0
    ELSE LET f == CHOOSE g \in files : TRUE
         IN Len(a[f]) + TotalSegs(a, files \ {f})

\* The Session's directory holds none, one or two of the files.
AudioDirs == (SUBSET AudioFiles) \ {AudioFiles}

\* What the directory can hold, each file with what the speech model hears
\* in it.
Audios ==
    {a \in UNION {[F -> SegLists] : F \in AudioDirs} :
        TotalSegs(a, DOMAIN a) <= MaxSegs}

Perms(S) ==
    {p \in [1..Cardinality(S) -> S] :
        \A i, j \in 1..Cardinality(S) : i # j => p[i] # p[j]}

IndexOfFirst(seq, tok) ==
    IF \E i \in DOMAIN seq : seq[i] = tok
    THEN CHOOSE i \in DOMAIN seq :
            seq[i] = tok /\ \A k \in 1..(i - 1) : seq[k] # tok
    ELSE 0

IndexOfLast(seq, tok) ==
    IF \E i \in DOMAIN seq : seq[i] = tok
    THEN CHOOSE i \in DOMAIN seq :
            seq[i] = tok /\ \A k \in (i + 1)..Len(seq) : seq[k] # tok
    ELSE 0

\* transcription_engine.py 82-85: filename.split('-', 1)[1].rsplit('.', 1)[0],
\* and "Unknown" when the name has no '-'.
Username(filename) ==
    LET d == IndexOfFirst(filename, "-")
    IN IF d = 0 THEN <<"Unknown">>
       ELSE LET rest == SubSeq(filename, d + 1, Len(filename))
                p == IndexOfLast(rest, ".")
            IN IF p = 0 THEN rest ELSE SubSeq(rest, 1, p - 1)

\* job.target_user: none, or the speaker of 'transcribe:<speaker>'.
Targets == {None, <<"alice">>}

\* transcription_engine.py 31-34: hours, minutes and whole seconds.
FormatTimestamp(t) ==
    <<(t \div 600) \div 60, (t \div 600) % 60, (t % 600) \div 10>>

RECURSIVE LStrip(_)
LStrip(t) == IF t # <<>> /\ Head(t) = " " THEN LStrip(Tail(t)) ELSE t

RECURSIVE RStrip(_)
RStrip(t) ==
    IF t # <<>> /\ t[Len(t)] = " "
    THEN RStrip(SubSeq(t, 1, Len(t) - 1))
    ELSE t

\* str.strip().
Strip(t) == RStrip(LStrip(t))

\* transcription_engine.py 112.
Line(start, username, words) == <<FormatTimestamp(start), username, words>>

\* transcription_engine.py 108-114: the (start, line) pairs of the segments
\* that have text, in the order heard.
RECURSIVE Entries(_, _)
Entries(username, segs) ==
    IF segs = <<>> THEN <<>>
    ELSE LET seg == Head(segs)
             words == Strip(seg.text)
         IN (IF words # <<>>
             THEN <<<<seg.start, Line(seg.start, username, words)>>>>
             ELSE <<>>)
            \o Entries(username, Tail(segs))

\* transcription_engine.py 116, 152: the lines handed to "<newline>".join.
LinesOf(entries) == [i \in DOMAIN entries |-> entries[i][2]]

\* A list begun again for each file.
MasterAfterFile_Reset(list, entries) == entries

\* transcription_engine.py 77, 113: one list for the run, appended to.
MasterAfterFile(list, entries) == list \o entries

\* An insertion that puts a pair before the pairs of the same start.
InsertByStart_Unstable(sorted, x) ==
    LET k == Cardinality({i \in DOMAIN sorted : sorted[i][1] < x[1]})
    IN SubSeq(sorted, 1, k) \o <<x>> \o SubSeq(sorted, k + 1, Len(sorted))

\* list.sort is stable: a pair goes after the pairs whose key is not larger.
InsertByStart(sorted, x) ==
    LET k == Cardinality({i \in DOMAIN sorted : sorted[i][1] <= x[1]})
    IN SubSeq(sorted, 1, k) \o <<x>> \o SubSeq(sorted, k + 1, Len(sorted))

\* transcription_engine.py 151: master_transcript.sort(key=lambda x: x[0]).
RECURSIVE SortByStart(_)
SortByStart(list) ==
    IF list = <<>> THEN <<>>
    ELSE InsertByStart(SortByStart(SubSeq(list, 1, Len(list) - 1)),
                       list[Len(list)])

\* Transcript.query.filter_by(session_id, username).first(): 0 for None.
FirstRow(rs, user) ==
    IF \E i \in DOMAIN rs : rs[i].username = user
    THEN CHOOSE i \in DOMAIN rs :
            rs[i].username = user /\ \A k \in 1..(i - 1) : rs[k].username # user
    ELSE 0

NewTranscript(user, file, content) ==
    [username |-> user, filename |-> file, content |-> content]

\* A save that adds a row each time.
SaveRow_AlwaysInsert(rs, user, file, content) ==
    Append(rs, NewTranscript(user, file, content))

\* transcription_engine.py 127-137: update the row found, or add one.
SaveRow(rs, user, file, content) ==
    IF FirstRow(rs, user) # 0
    THEN [rs EXCEPT ![FirstRow(rs, user)].content = content]
    ELSE Append(rs, NewTranscript(user, file, content))

\* open(path, 'w') and write: transcripts/<username>_transcript.txt.
WriteFile(d, user, content) ==
    [u \in DOMAIN d \cup {user} |-> IF u = user THEN content ELSE d[u]]

\* transcription_engine.py 96-146: how the work on one file can go.  The
\* speech model fails at the call or after some segments; the file cannot be
\* opened, or is opened and cannot be written; or all goes well.
FileOutcomes(segs) ==
    {[kind |-> "ok", heard |-> Len(segs)]}
    \cup {[kind |-> "transcribe_fails", heard |-> k] :
             k \in {n \in 0..Len(segs) : n = 0 \/ n < Len(segs)}}
    \cup {[kind |-> k, heard |-> Len(segs)] :
             k \in {"open_fails", "write_fails"}}

\* A failure that ends the run.
AfterFileError_Abort == "raised"

\* transcription_engine.py 143-146: log, commit, continue.
AfterFileError == "loop"

\* transcription_engine.py 48-77.
TxBegin ==
    /\ tpc \in {"idle", "done", "raised"}
    /\ events < MaxEvents
    /\ events' = events + 1
    /\ \E target \in Targets, modelLoads \in BOOLEAN,
          order \in Perms(DOMAIN audio) :
          IF ~modelLoads
          THEN /\ tlog' = <<<<"Starting">>, <<"FATAL">>>>
               /\ tpc' = "raised"
               /\ tjob' = NoRun
               /\ glob' = <<>>
          ELSE IF order = <<>>
          THEN /\ tlog' = <<<<"Starting">>>>
               /\ tpc' = "raised"
               /\ tjob' = NoRun
               /\ glob' = <<>>
          ELSE /\ tlog' = <<<<"Starting">>, <<"Found">>>>
               /\ tpc' = "loop"
               /\ tjob' = [target |-> target, order |-> order, clean |-> TRUE]
               /\ glob' = order
    /\ master' = <<>>
    /\ UNCHANGED <<audio, rows, disk, text, hist>>
    /\ UNCHANGED <<jobs, sessions, pc, cur, wlogs, stageVars, rsVars, fnVars, auxVars>>

\* transcription_engine.py 80-146: one turn of the loop.
TxFile ==
    /\ tpc = "loop"
    /\ glob # <<>>
    /\ LET file == Head(glob)
           username == Username(file)
           segs == audio[file]
       IN IF tjob.target # None /\ username # tjob.target
          THEN /\ glob' = Tail(glob)
               /\ UNCHANGED <<tjob, tpc, master, rows, disk, tlog, events>>
          ELSE \E outcome \in FileOutcomes(segs) :
               LET entries == Entries(username,
                                      SubSeq(segs, 1, outcome.heard))
               IN /\ master' = MasterAfterFile(master, entries)
                  /\ IF outcome.kind = "ok"
                     THEN /\ disk' = WriteFile(disk, username,
                                               LinesOf(entries))
                          /\ rows' = SaveRow(rows, username, file,
                                             LinesOf(entries))
                          /\ tlog' = tlog \o <<<<"Transcribing", file>>,
                                               <<"Completed", file>>>>
                          /\ tpc' = "loop"
                          /\ glob' = Tail(glob)
                          /\ UNCHANGED <<tjob, events>>
                     ELSE /\ events < MaxEvents
                          /\ events' = events + 1
                          /\ disk' = IF outcome.kind = "write_fails"
                                     THEN WriteFile(disk, username, <<>>)
                                     ELSE disk
                          /\ tlog' = tlog \o <<<<"Transcribing", file>>,
                                               <<"ERROR", file>>>>
                          /\ tjob' = [tjob EXCEPT !.clean = FALSE]
                          /\ tpc' = AfterFileError
                          /\ glob' = Tail(glob)
                          /\ UNCHANGED rows
    /\ UNCHANGED <<audio, text, hist>>
    /\ UNCHANGED <<jobs, sessions, pc, cur, wlogs, stageVars, rsVars, fnVars, auxVars>>

\* transcription_engine.py 151-163: sort, join, save.
TxMerge ==
    /\ tpc = "loop"
    /\ glob = <<>>
    /\ master' = SortByStart(master)
    /\ text' = LinesOf(master')
    /\ tlog' = Append(tlog, <<"MasterSaved">>)
    /\ hist' = [full |-> tjob.target = None, clean |-> tjob.clean]
    /\ tpc' = "done"
    /\ UNCHANGED <<audio, glob, tjob, rows, disk>>
    /\ UNCHANGED <<pipeVars, stageVars, rsVars, fnVars, auxVars>>

\* request.form content.
Edited == <<"edited">>

\* app.py 961-985: the row is updated and committed, then the file is
\* written; a failure of the write is logged and nothing more.
SaveUserTranscript(user) ==
    /\ tpc # "off"
    /\ events < MaxEvents
    /\ events' = events + 1
    /\ FirstRow(rows, user) # 0
    /\ rows' = [rows EXCEPT ![FirstRow(rows, user)].content = Edited]
    /\ \E written \in {"written", "open_fails", "write_fails"} :
         disk' = CASE written = "written" -> WriteFile(disk, user, Edited)
                   [] written = "write_fails" -> WriteFile(disk, user, <<>>)
                   [] written = "open_fails" -> disk
    /\ UNCHANGED <<audio, glob, tjob, tpc, master, text, tlog, hist>>
    /\ UNCHANGED <<jobs, sessions, pc, cur, wlogs, stageVars, rsVars, fnVars, auxVars>>

\* The worker and the summary stage out of the picture.
PipelineIdle ==
    /\ jobs = <<>>
    /\ sessions = <<>>
    /\ pc = "off"
    /\ cur = 0
    /\ wlogs = Expired
    /\ events = 0
    /\ env = DefaultEnv
    /\ sent = {}
    /\ llmlog = <<>>

InitTranscribe ==
    /\ PipelineIdle
    /\ audio \in Audios
    /\ glob = <<>>
    /\ tjob = NoRun
    /\ tpc = "idle"
    /\ master = <<>>
    /\ rows = <<>>
    /\ disk = <<>>
    /\ text = <<>>
    /\ tlog = <<>>
    /\ hist = NoHistory
    /\ zip = [exists |-> FALSE, names |-> <<>>]
    /\ dir = [exists |-> FALSE, names |-> {}]
    /\ restore = [target |-> <<>>, result |-> FALSE, from |-> "none",
                  extracted |-> {}]
    /\ FnIdle

NextTranscribe ==
    \/ TxBegin
    \/ TxFile
    \/ TxMerge
    \/ \E f \in AudioFiles : SaveUserTranscript(Username(f))

SpecTranscribe == InitTranscribe /\ [][NextTranscribe]_vars

\* ------------------------------------------------------ the smart restore
\* ensure_files_exist (app.py 1064-1120) on one Session, and the removal of
\* the audio after a transcription (worker.py 188-196).  A name is a list
\* of characters, with the extension as one token.

\* What an archive, and so the directory, can hold.
ZipNames ==
    { <<"1", "-", "a", "l", "i", ".", "flac">>,
      <<"2", "-", "a", "l", ".", "flac">>,
      <<"a", "l", ".", "txt">> }

\* target_user when it is None: as false as the empty text.
NoTarget == <<>>

RestoreSpeakers == {<<"a", "l">>, <<"b">>}

\* target_user: none for the whole Session, or a speaker.
RestoreTargets == {NoTarget} \cup RestoreSpeakers

\* The namelists: the members in any order.
Namelists == UNION {Perms(S) : S \in SUBSET ZipNames}

NoArchive == [exists |-> FALSE, names |-> <<>>]

NoDirectory == [exists |-> FALSE, names |-> {}]

NotCalled ==
    [target |-> NoTarget, result |-> FALSE, from |-> "none",
     extracted |-> {}]

\* target_user in name.
IsInfix(t, name) ==
    \E i \in 1..(Len(name) - Len(t) + 1) :
        SubSeq(name, i, i + Len(t) - 1) = t

\* name.endswith('.flac')
EndsWithFlac(name) ==
    Len(name) >= 2 /\ SubSeq(name, Len(name) - 1, Len(name)) = <<".", "flac">>

Matches(target, name) == IsInfix(target, name) /\ EndsWithFlac(name)

Range(seq) == {seq[i] : i \in DOMAIN seq}

\* app.py 1068-1079: the audio wanted is in the directory already.
FoundOnDisk(target) ==
    /\ dir.exists
    /\ LET flacs == {f \in dir.names : EndsWithFlac(f)}
       IN IF target # NoTarget
          THEN \E f \in flacs : IsInfix(target, f)
          ELSE flacs # {}

\* An extraction of every member, target or no target.
MembersToExtract_All(names, target) == Range(names)

\* app.py 1098-1112: the first member that matches the target, and every
\* member when none matches or there is no target.
MembersToExtract(names, target) ==
    IF target # NoTarget /\ \E i \in DOMAIN names : Matches(target, names[i])
    THEN {names[CHOOSE i \in DOMAIN names :
                  /\ Matches(target, names[i])
                  /\ \A k \in 1..(i - 1) : ~Matches(target, names[k])]}
    ELSE Range(names)

\* app.py 1064-1120.
SmartRestore(target) ==
    /\ IF FoundOnDisk(target)
       THEN /\ restore' = [target |-> target, result |-> TRUE,
                           from |-> "disk", extracted |-> {}]
            /\ UNCHANGED dir
       ELSE IF ~zip.exists
       THEN /\ restore' = [target |-> target, result |-> FALSE,
                           from |-> "nowhere", extracted |-> {}]
            /\ UNCHANGED dir
       ELSE \E extracts \in BOOLEAN :
            LET members == IF extracts
                           THEN MembersToExtract(zip.names, target)
                           ELSE {}
            IN /\ restore' = [target |-> target, result |-> extracts,
                              from |-> "archive", extracted |-> members]
               /\ dir' = [exists |-> TRUE, names |-> dir.names \cup members]
    /\ UNCHANGED zip
    /\ UNCHANGED <<pipeVars, stageVars, txVars, fnVars, auxVars>>

\* worker.py 188-196: with the archive in place, a transcription ends by
\* removing the audio files it ran on.
Cleanup ==
    /\ zip.exists
    /\ \E f \in dir.names : EndsWithFlac(f)
    /\ dir' = [dir EXCEPT !.names = {f \in @ : ~EndsWithFlac(f)}]
    /\ UNCHANGED <<zip, restore>>
    /\ UNCHANGED <<pipeVars, stageVars, txVars, fnVars, auxVars>>

\* The settings page stores archive_zip on or off (app.py 293); the
\* archive directory is filled from outside the program.
InitRestore ==
    /\ jobs = <<>>
    /\ sessions = <<>>
    /\ pc = "off"
    /\ cur = 0
    /\ wlogs = Expired
    /\ events = 0
    /\ env \in {[DefaultEnv EXCEPT !.archive_zip = b] : b \in BOOLEAN}
    /\ sent = {}
    /\ llmlog = <<>>
    /\ audio = <<>>
    /\ glob = <<>>
    /\ tjob = NoRun
    /\ tpc = "off"
    /\ master = <<>>
    /\ rows = <<>>
    /\ disk = <<>>
    /\ text = <<>>
    /\ tlog = <<>>
    /\ hist = NoHistory
    /\ zip \in {NoArchive} \cup {[exists |-> TRUE, names |-> n] : n \in Namelists}
    /\ dir \in {NoDirectory}
               \cup {[exists |-> TRUE, names |-> S] : S \in SUBSET ZipNames}
    /\ restore = NotCalled
    /\ FnIdle

NextRestore ==
    \/ \E target \in RestoreTargets : SmartRestore(target)
    \/ Cleanup

SpecRestore == InitRestore /\ [][NextRestore]_vars

\* ------------------------------------------------------ the cost of a call
\* calculate_cost (llm_engine.py 14-33) applied to token counts and to the
\* two rate settings.  A setting is its text, character by character; a
\* rate is counted in cents per million tokens, a cost in hundred-millionths
\* of a dollar before it is rounded and in millionths after.

\* usage counts of a response.
TokenCounts == {0, 1, 1500, 1000000}

\* The key is not in the configuration.
Missing == <<"<missing>">>

\* What the settings page can have stored under llm_input_cost and
\* llm_output_cost.
RateSettings ==
    { Missing, <<>>, <<"2", ".", "0">>, <<"6", ".", "0">>,
      <<" ", "0", ".", "5", " ">>, <<"a", "b", "c">>,
      <<"1", ".", "2", ".", "3">> }

\* config.get(key, '0')
ConfigGet(setting) == IF setting = Missing THEN <<"0">> ELSE setting

DigitChars == <<"0", "1", "2", "3", "4", "5", "6", "7", "8", "9">>

IsDigit(c) == \E n \in DOMAIN DigitChars : DigitChars[n] = c

DigitValue(c) == (CHOOSE n \in DOMAIN DigitChars : DigitChars[n] = c) - 1

RECURSIVE Decimal(_)
Decimal(digits) ==
    IF digits = <<>> THEN 0
    ELSE Decimal(SubSeq(digits, 1, Len(digits) - 1)) * 10
         + DigitValue(digits[Len(digits)])

\* float(val) raised ValueError.
ValueError == -1

\* float(val) for a text: digits with at most one point and at least one
\* digit give the number, here in cents; anything else is a ValueError.
Float(val) ==
    LET points == {i \in DOMAIN val : val[i] = "."}
        digits == {i \in DOMAIN val : IsDigit(val[i])}
    IN  IF digits = {} \/ Cardinality(points) > 1
           \/ points \cup digits # DOMAIN val
        THEN ValueError
        ELSE LET at == IF points = {} THEN Len(val) + 1
                       ELSE CHOOSE i \in points : TRUE
                 whole == SubSeq(val, 1, at - 1)
                 frac == SubSeq(SubSeq(val, at + 1, Len(val))
                                  \o <<"0", "0">>, 1, 2)
             IN  Decimal(whole) * 100 + Decimal(frac)

\* A conversion that lets the ValueError out.
SafeFloat_Unsafe(val) == Float(val)

\* llm_engine.py 21-23: safe_float.
SafeFloat(val) == IF Float(val) = ValueError THEN 0 ELSE Float(val)

\* A sum that charges each count at the other rate.
Cost_Swapped(prompt, completion, input, output) ==
    prompt * output + completion * input

\* llm_engine.py 28-29: the sum of the two terms.
Cost(prompt, completion, input, output) ==
    prompt * input + completion * output

\* round(cost, 6): the nearest millionth; a cost halfway between two
\* millionths goes to either, as the binary value of the float decides.
Round6(cost) ==
    LET q == cost \div 100
        r == cost % 100
    IN  IF r < 50 THEN {q} ELSE IF r > 50 THEN {q + 1} ELSE {q, q + 1}

\* llm_engine.py 14-33.
CalculateCost ==
    /\ costing.at = "called"
    /\ LET input == SafeFloat(Strip(ConfigGet(costing.llm_input_cost)))
           output == SafeFloat(Strip(ConfigGet(costing.llm_output_cost)))
       IN  IF input = ValueError \/ output = ValueError
           THEN costing' = [costing EXCEPT !.cost = 0, !.at = "returned"]
           ELSE \E c \in Round6(Cost(costing.prompt_tokens,
                                      costing.completion_tokens,
                                      input, output)) :
                   costing' = [costing EXCEPT !.cost = c, !.at = "returned"]
    /\ UNCHANGED <<pipeVars, stageVars, txVars, rsVars, recap, discord, runner, auxVars>>

InitCost ==
    /\ PipelineIdle
    /\ audio = <<>>
    /\ glob = <<>>
    /\ tjob = NoRun
    /\ tpc = "off"
    /\ master = <<>>
    /\ rows = <<>>
    /\ disk = <<>>
    /\ text = <<>>
    /\ tlog = <<>>
    /\ hist = NoHistory
    /\ zip = NoArchive
    /\ dir = NoDirectory
    /\ restore = NotCalled
    /\ costing \in [prompt_tokens : TokenCounts,
                     completion_tokens : TokenCounts,
                     llm_input_cost : RateSettings,
                     llm_output_cost : RateSettings,
                     at : {"called"}, cost : {0}]
    /\ recap = NoRecap
    /\ discord = NoDiscord
    /\ runner = NoRunner
    /\ AuxIdle

NextCost == CalculateCost

SpecCost == InitCost /\ [][NextCost]_vars


\* ------------------------------------------------- the header of a summary
\* The text run_summary stores (llm_engine.py 392-410) and what
\* parse_llm_stats (app.py 132-159) reads back from it.  A text is a list
\* of tokens: a glyph, a label, a backtick, a newline, a name, or one
\* character of a number.

\* The glyph in front of each label, named by its bytes in the source
\* file: as the f-strings of llm_engine.py 396-399 have it.
HeaderGlyphs ==
    [provider |-> "C3B0C5B8C2A4E28093", model |-> "C3B0C5B8E2809CE280B9",
     api_time |-> "C3A2C592C5A1", tokens |-> "C3B0C5B8C2A7C2BE"]

\* The same, as the patterns of app.py 140-143 have it.
PatternGlyphs ==
    [provider |-> "F09FA496", model |-> "F09F938B",
     api_time |-> "E28C9A", tokens |-> "F09FA7BE"]

\* llm_engine.py 396-399 and app.py 140-143: the labels, the same in both.
Labels ==
    [provider |-> " LLM Provider: ", model |-> " Model: ",
     api_time |-> " API time: ", tokens |-> " Tokens: "]

\* str(n) for a count.
RECURSIVE Digits(_)
Digits(n) ==
    IF n < 10 THEN <<DigitChars[n + 1]>>
    ELSE Append(Digits(n \div 10), DigitChars[(n % 10) + 1])

\* llm_engine.py 35-37: format_duration, for a time in milliseconds.
FormatDuration(ms) ==
    LET frac == <<"0", "0">> \o Digits(ms % 1000)
    IN  Digits(ms \div 1000) \o <<".">>
          \o SubSeq(frac, Len(frac) - 2, Len(frac)) \o <<"s">>

\* llm_engine.py 399: the value of the Tokens field.
TokensField(prompt, completion, total) ==
    Digits(prompt) \o <<" in | ">> \o Digits(completion) \o <<" out | ">>
      \o Digits(total) \o <<" total">>

FieldLine(key, value) ==
    <<HeaderGlyphs[key], Labels[key], "<backtick>">> \o value \o <<"<backtick>", "<newline>">>

\* llm_engine.py 393-400.
Header(date, r) ==
    <<"## ", date, " Session Recap", "<newline>", "<newline>">>
      \o FieldLine("provider", <<r.provider>>)
      \o FieldLine("model", <<r.model>>)
      \o FieldLine("api_time", FormatDuration(r.duration))
      \o FieldLine("tokens", TokensField(r.prompt, r.completion, r.total))
      \o <<"<newline>">>

\* llm_engine.py 402.
FinalContent(header, summary) == header \o summary

\* The key is not in the dict parse_llm_stats returns.
NoMatch == <<"<no match>">>

\* The pattern of a key matches at token i: glyph, label, backtick, then
\* the fewest tokens of one line up to a closing backtick.
MatchAt(txt, key, i) ==
    /\ i + 3 <= Len(txt)
    /\ txt[i] = PatternGlyphs[key]
    /\ txt[i + 1] = Labels[key]
    /\ txt[i + 2] = "<backtick>"
    /\ \E j \in (i + 3)..Len(txt) :
          /\ txt[j] = "<backtick>"
          /\ \A k \in (i + 3)..(j - 1) : txt[k] # "<newline>"

\* match.group(1) of the match at i.
Group1(txt, i) ==
    LET j == CHOOSE j \in (i + 3)..Len(txt) :
                 /\ txt[j] = "<backtick>"
                 /\ \A k \in (i + 3)..(j - 1) : txt[k] # "<backtick>"
    IN  SubSeq(txt, i + 3, j - 1)

\* "{:,}".format(int(run)) for a run of digits.
RECURSIVE Group3(_)
Group3(run) ==
    IF Len(run) <= 3 THEN run
    ELSE Group3(SubSeq(run, 1, Len(run) - 3)) \o <<",">>
           \o SubSeq(run, Len(run) - 2, Len(run))

\* app.py 153: re.sub over every run of digits.
RECURSIVE AddCommas(_)
AddCommas(val) ==
    IF val = <<>> THEN <<>>
    ELSE IF ~IsDigit(val[1]) THEN <<val[1]>> \o AddCommas(Tail(val))
    ELSE LET n == CHOOSE n \in 1..Len(val) :
                     /\ \A k \in 1..n : IsDigit(val[k])
                     /\ n < Len(val) => ~IsDigit(val[n + 1])
         IN  Group3(SubSeq(val, 1, n))
               \o AddCommas(SubSeq(val, n + 1, Len(val)))

\* app.py 146-156: one key of the result.
Stat(txt, key) ==
    IF \E i \in DOMAIN txt : MatchAt(txt, key, i)
    THEN LET i == CHOOSE i \in DOMAIN txt :
                     /\ MatchAt(txt, key, i)
                     /\ \A k \in 1..(i - 1) : ~MatchAt(txt, key, k)
             val == Group1(txt, i)
         IN  IF key = "tokens" THEN AddCommas(val) ELSE val
    ELSE NoMatch

\* app.py 132-159.
ParseLlmStats(txt) ==
    [key \in DOMAIN Labels |-> IF txt = <<>> THEN NoMatch ELSE Stat(txt, key)]

\* What a provider call hands to the header.
Models == {"gemini-2.5-pro", "llama3"}

Durations == {345, 12345}

UsageCounts == {200, 1500}

Summaries == {<<>>, <<"The party rested.">>}

SessionDates == {"May 1, 2026"}

\* llm_engine.py 392-410: the header and the summary become the stored
\* summary_text.
StoreSummary ==
    /\ recap.at = "called"
    /\ recap' = [recap EXCEPT
          !.text = FinalContent(
                      Header(CHOOSE d \in SessionDates : TRUE, recap),
                      recap.summary),
          !.at = "stored"]
    /\ UNCHANGED <<pipeVars, stageVars, txVars, rsVars, costing, discord, runner, auxVars>>

\* app.py 909: the session page reads the statistics from summary_text.
SessionDetail ==
    /\ recap.at = "stored"
    /\ recap' = [recap EXCEPT !.parsed = ParseLlmStats(recap.text),
                              !.at = "parsed"]
    /\ UNCHANGED <<pipeVars, stageVars, txVars, rsVars, costing, discord, runner, auxVars>>

InitHeader ==
    /\ PipelineIdle
    /\ audio = <<>>
    /\ glob = <<>>
    /\ tjob = NoRun
    /\ tpc = "off"
    /\ master = <<>>
    /\ rows = <<>>
    /\ disk = <<>>
    /\ text = <<>>
    /\ tlog = <<>>
    /\ hist = NoHistory
    /\ zip = NoArchive
    /\ dir = NoDirectory
    /\ restore = NotCalled
    /\ costing = NoCosting
    /\ \E p \in Providers, m \in Models, d \in Durations,
          i \in UsageCounts, o \in UsageCounts, su \in Summaries :
          recap = [provider |-> p, model |-> m, duration |-> d,
                   prompt |-> i, completion |-> o, total |-> i + o,
                   summary |-> su, text |-> <<>>, parsed |-> <<>>,
                   at |-> "called"]
    /\ discord = NoDiscord
    /\ runner = NoRunner
    /\ AuxIdle

NextHeader ==
    \/ StoreSummary
    \/ SessionDetail

SpecHeader == InitHeader /\ [][NextHeader]_vars

\* ------------------------------------------------------ the webhook poster
\* send_discord (llm_engine.py 314-348), message by message.  A text is a
\* list of runs, each a character and how many times it is repeated, no two
\* neighbours with the same character; "a" stands for any character that
\* is not white space, "nl" for the newline.

\* llm_engine.py 341-342: the ceiling on the length of a message.
MessageCeiling == 1900

Run(ch, n) == [ch |-> ch, n |-> n]

\* len(p)
RECURSIVE Size(_)
Size(p) == IF p = <<>> THEN 0 ELSE Head(p).n + Size(Tail(p))

\* p + q
Join(p, q) ==
    IF p = <<>> THEN q
    ELSE IF q = <<>> THEN p
    ELSE IF p[Len(p)].ch = q[1].ch
    THEN SubSeq(p, 1, Len(p) - 1)
           \o <<Run(q[1].ch, p[Len(p)].n + q[1].n)>> \o Tail(q)
    ELSE p \o q

\* p[:k]
RECURSIVE Take(_, _)
Take(p, k) ==
    IF p = <<>> \/ k <= 0 THEN <<>>
    ELSE IF Head(p).n >= k THEN <<Run(Head(p).ch, k)>>
    ELSE <<Head(p)>> \o Take(Tail(p), k - Head(p).n)

\* p[k:]
RECURSIVE Drop(_, _)
Drop(p, k) ==
    IF p = <<>> \/ k <= 0 THEN p
    ELSE IF Head(p).n > k THEN <<Run(Head(p).ch, Head(p).n - k)>> \o Tail(p)
    ELSE Drop(Tail(p), k - Head(p).n)

\* not p.strip()
IsBlank(p) == \A i \in DOMAIN p : p[i].ch \in {" ", "nl"}

\* summary_text.split('\n\n'), with the paragraph begun so far: a run of
\* newlines is cut two by two from the left, and an odd one left over
\* starts the next paragraph.
RECURSIVE SplitFrom(_, _)
SplitFrom(runs, begun) ==
    IF runs = <<>> THEN <<begun>>
    ELSE LET r == Head(runs)
         IN  IF r.ch # "nl" \/ r.n < 2
             THEN SplitFrom(Tail(runs), Append(begun, r))
             ELSE <<begun>> \o [i \in 1..((r.n \div 2) - 1) |-> <<>>]
                    \o SplitFrom(Tail(runs),
                                 IF r.n % 2 = 1 THEN <<Run("nl", 1)>>
                                 ELSE <<>>)

\* llm_engine.py 336.
Paragraphs(txt) == SplitFrom(txt, <<>>)

\* A slicing that keeps the first slice only.
Chunks_FirstOnly(p) == <<Take(p, MessageCeiling)>>

\* llm_engine.py 341-342: [p[i:i+1900] for i in range(0, len(p), 1900)].
RECURSIVE Chunks(_)
Chunks(p) ==
    IF p = <<>> THEN <<>>
    ELSE <<Take(p, MessageCeiling)>> \o Chunks(Drop(p, MessageCeiling))

\* llm_engine.py 338-348: the messages of paragraph i.
MessagesOf(p, i) ==
    IF IsBlank(p) THEN <<>>
    ELSE IF Size(p) > MessageCeiling
    THEN [k \in DOMAIN Chunks(p) |-> [para |-> i, content |-> Chunks(p)[k]]]
    ELSE <<[para |-> i, content |-> p]>>

\* llm_engine.py 338: the loop over the paragraphs, from paragraph i on.
RECURSIVE MessagesFrom(_, _)
MessagesFrom(ps, i) ==
    IF i > Len(ps) THEN <<>>
    ELSE MessagesOf(ps[i], i) \o MessagesFrom(ps, i + 1)

\* llm_engine.py 318-324: the message that opens the thread, '# ' and the
\* title; it belongs to no paragraph.
ThreadStart == [para |-> 0, content |-> <<Run("#", 1), Run(" ", 1),
                                          Run("a", 25)>>]

\* The pieces a summary is made of.
Blocks ==
    { Run("a", 5), Run("a", MessageCeiling), Run("a", MessageCeiling + 1),
      Run("a", 2 * MessageCeiling + 1), Run(" ", 2), Run("nl", 1),
      Run("nl", 2), Run("nl", 3), Run("nl", 4) }

\* The summaries: up to three pieces, neighbours of different characters.
SummaryTexts ==
    {t \in UNION {[1..n -> Blocks] : n \in 0..3} :
        \A i \in 1..(Len(t) - 1) : t[i].ch # t[i + 1].ch}

\* llm_engine.py 314-336: nothing without a webhook; else the thread is
\* opened, created or not, and the messages are lined up.
SendDiscord ==
    /\ discord.at = "called"
    /\ IF ~discord.webhook_url
       THEN discord' = [discord EXCEPT !.at = "returned"]
       ELSE \E created \in BOOLEAN :
               discord' = [discord EXCEPT
                   !.thread = created,
                   !.posted = <<ThreadStart>>,
                   !.todo = MessagesFrom(Paragraphs(discord.summary_text), 1),
                   !.at = "sending"]
    /\ UNCHANGED <<pipeVars, stageVars, txVars, rsVars, costing, recap, runner, auxVars>>

\* llm_engine.py 344-345, 347-348: one message is posted, then the sleep.
PostMessage ==
    /\ discord.at = "sending"
    /\ discord.todo # <<>>
    /\ discord' = [discord EXCEPT !.posted = Append(@, Head(discord.todo)),
                                  !.todo = Tail(@)]
    /\ UNCHANGED <<pipeVars, stageVars, txVars, rsVars, costing, recap, runner, auxVars>>

\* The loop is over.
DiscordReturn ==
    /\ discord.at = "sending"
    /\ discord.todo = <<>>
    /\ discord' = [discord EXCEPT !.at = "returned"]
    /\ UNCHANGED <<pipeVars, stageVars, txVars, rsVars, costing, recap, runner, auxVars>>

InitDiscord ==
    /\ PipelineIdle
    /\ audio = <<>>
    /\ glob = <<>>
    /\ tjob = NoRun
    /\ tpc = "off"
    /\ master = <<>>
    /\ rows = <<>>
    /\ disk = <<>>
    /\ text = <<>>
    /\ tlog = <<>>
    /\ hist = NoHistory
    /\ zip = NoArchive
    /\ dir = NoDirectory
    /\ restore = NotCalled
    /\ costing = NoCosting
    /\ recap = NoRecap
    /\ discord \in [summary_text : SummaryTexts, webhook_url : BOOLEAN,
                     thread : {FALSE}, todo : {<<>>}, posted : {<<>>},
                     at : {"called"}]
    /\ runner = NoRunner
    /\ AuxIdle

NextDiscord ==
    \/ SendDiscord
    \/ PostMessage
    \/ DiscordReturn

SpecDiscord == InitDiscord /\ [][NextDiscord]_vars

\* ------------------------------------------------------- the script runner
\* run_campaign_scripts (worker.py 56-150) for a run_scripts Job
\* (worker.py 231-236), script by script.  A script is known by its place
\* in the campaign's list and by what running it comes to.

\* The longest list of scripts of a campaign.
MaxScripts == 3

\* worker.py 107-141: the script is not in /data/scripts, exits 0, exits
\* with another code, runs over the timeout, or cannot be started.
ScriptOutcomes == {"not_found", "exit0", "exit1", "timeout", "cannot_start"}

\* worker.py 69: script_names.
ScriptLists == UNION {[1..n -> ScriptOutcomes] : n \in 0..MaxScripts}

\* worker.py 115-141: what one script leaves in the Job log.
ScriptLog(k, outcome) ==
    CASE outcome = "not_found" -> <<[entry |-> "Skipping", script |-> k]>>
      [] outcome = "exit0" -> <<[entry |-> "Running", script |-> k],
                               [entry |-> "Finished", script |-> k]>>
      [] outcome = "exit1" -> <<[entry |-> "Running", script |-> k],
                               [entry |-> "Failed", script |-> k]>>
      [] OTHER -> <<[entry |-> "Running", script |-> k],
                    [entry |-> "ScriptError", script |-> k]>>

\* A loop that stops at the first script that does not succeed.
AfterScript_StopOnFailure(outcome) ==
    IF outcome = "exit0" THEN "loop" ELSE "cleanup"

\* worker.py 133-141: whatever the script came to, the loop goes on.
AfterScript(outcome) == "loop"

\* The master transcript and the recap as files of the Session's directory:
\* transcription_engine.py 154-161 and llm_engine.py 405-410 write each
\* together with the Session's text.
InputNames == {"session_transcript.txt", "session_recap.txt"}

\* worker.py 80-81, 84-94: the files the runner writes into the Session's
\* directory, in the order it writes them; a file is written only when the
\* Session holds its text.
InputFiles(r) ==
    (IF r.transcript_text THEN <<"session_transcript.txt">> ELSE <<>>)
        \o (IF r.summary_text THEN <<"session_recap.txt">> ELSE <<>>)

\* worker.py 61-101: nothing to run without scripts; the directory cannot
\* be made (raise); a write of an input file fails after n files were
\* written, leaving of the failing file nothing or a part (96-98: logged,
\* return, and what was written stays);
\* or every file is written and the loop is entered.
RunCampaignScripts ==
    /\ runner.at = "called"
    /\ IF runner.scripts = <<>>
       THEN runner' = [runner EXCEPT !.at = "returned"]
       ELSE \E mkdir \in {"ok", "raises"} :
            \E n \in 0..Len(InputFiles(runner)) :
            \E part \in BOOLEAN :
            LET files == InputFiles(runner)
                written == {files[i] : i \in 1..n}
            IN  CASE mkdir = "raises" ->
                   /\ n = 0 /\ ~part
                   /\ runner' = [runner EXCEPT
                       !.logs = Append(@, [entry |-> "Staging", script |-> 0]),
                       !.at = "raised"]
              [] mkdir = "ok" /\ n < Len(files) ->
                   runner' = [runner EXCEPT
                       !.logs = @ \o <<[entry |-> "Staging", script |-> 0],
                                       [entry |-> "StageError", script |-> 0]>>,
                       !.files_to_cleanup = SubSeq(files, 1, n),
                       !.wrote = written
                           \cup (IF part THEN {files[n + 1]} ELSE {}),
                       !.present = @ \cup written
                           \cup (IF part THEN {files[n + 1]} ELSE {}),
                       !.at = "returned"]
              [] OTHER ->
                   /\ ~part
                   /\ runner' = [runner EXCEPT
                       !.logs = @ \o <<[entry |-> "Staging", script |-> 0],
                                       [entry |-> "Executing", script |-> 0]>>,
                       !.files_to_cleanup = files,
                       !.wrote = written,
                       !.present = @ \cup written,
                       !.k = 1,
                       !.at = "loop"]
    /\ UNCHANGED <<pipeVars, stageVars, txVars, rsVars, costing, recap,
                   discord, auxVars>>

\* worker.py 104-141: the script at the head of what is left.
RunScript ==
    /\ runner.at = "loop"
    /\ runner.k <= Len(runner.scripts)
    /\ runner' = [runner EXCEPT
          !.logs = @ \o ScriptLog(runner.k, runner.scripts[runner.k]),
          !.k = @ + 1,
          !.at = AfterScript(runner.scripts[runner.k])]
    /\ UNCHANGED <<pipeVars, stageVars, txVars, rsVars, costing, recap,
                   discord, auxVars>>

\* worker.py 143-150: the staged files are removed one by one; a removal
\* that fails is logged as a warning and the file stays.
RemoveInputs ==
    /\ runner.at \in {"loop", "cleanup"}
    /\ runner.at = "loop" => runner.k > Len(runner.scripts)
    /\ \E kept \in SUBSET {runner.files_to_cleanup[i] :
                              i \in DOMAIN runner.files_to_cleanup} :
          runner' = [runner EXCEPT
              !.logs = Append(@, [entry |-> "CleanupInputs", script |-> 0])
                         \o [i \in 1..Cardinality(kept) |->
                                [entry |-> "CleanupWarning", script |-> 0]],
              !.present = (@ \ {runner.files_to_cleanup[i] :
                                   i \in DOMAIN runner.files_to_cleanup})
                              \cup kept,
              !.at = "returned"]
    /\ UNCHANGED <<pipeVars, stageVars, txVars, rsVars, costing, recap,
                   discord, auxVars>>

\* worker.py 234-236: the Job completes; 253-259: it fails.
RunScriptsJobEnds ==
    /\ runner.at \in {"returned", "raised"}
    /\ runner' = [runner EXCEPT
          !.status = IF runner.at = "returned" THEN "completed"
                     ELSE ErrorStatus,
          !.logs = IF runner.at = "returned" THEN @
                   ELSE Append(@, [entry |-> "CRITICAL", script |-> 0]),
          !.at = "ended"]
    /\ UNCHANGED <<pipeVars, stageVars, txVars, rsVars, costing, recap,
                   discord, auxVars>>

\* app.py 1189-1194 and llm_engine.py 352-357, after the Job of the script
\* run has ended: regenerate_summary is refused when the Session has
\* neither transcript file nor transcript text; run_summary, entered for
\* the summarize_only Job, raises 'Transcript file not found.' when the
\* file is not in the directory.
FindTranscript ==
    /\ runner.at = "ended"
    /\ runner' = [runner EXCEPT
          !.at = CASE "session_transcript.txt" \in runner.present -> "found"
                   [] runner.transcript_text -> "not_found"
                   [] OTHER -> "refused"]
    /\ UNCHANGED <<pipeVars, stageVars, txVars, rsVars, costing, recap,
                   discord, auxVars>>

InitScripts ==
    /\ PipelineIdle
    /\ audio = <<>>
    /\ glob = <<>>
    /\ tjob = NoRun
    /\ tpc = "off"
    /\ master = <<>>
    /\ rows = <<>>
    /\ disk = <<>>
    /\ text = <<>>
    /\ tlog = <<>>
    /\ hist = NoHistory
    /\ zip = NoArchive
    /\ dir = NoDirectory
    /\ restore = NotCalled
    /\ costing = NoCosting
    /\ recap = NoRecap
    /\ discord = NoDiscord
    /\ AuxIdle
    /\ runner \in [scripts : ScriptLists, transcript_text : BOOLEAN,
                    summary_text : BOOLEAN, files_to_cleanup : {<<>>},
                    wrote : {{}}, present : SUBSET InputNames, k : {0},
                    logs : {<<>>}, status : {"processing"},
                    at : {"called"}]
    /\ runner.transcript_text => "session_transcript.txt" \in runner.present
    /\ runner.summary_text => "session_recap.txt" \in runner.present

NextScripts ==
    \/ RunCampaignScripts
    \/ RunScript
    \/ RemoveInputs
    \/ RunScriptsJobEnds
    \/ FindTranscript

SpecScripts == InitScripts /\ [][NextScripts]_vars

\* ------------------------------------------------- where a script is found
\* worker.py 62, 69, 104-124: one configured script value on its way to the
\* path the runner makes executable and runs.  A value is the list of its
\* parts between '/' characters ('/etc/x.sh' is <<"", "etc", "x.sh">>, '..'
\* is <<"..">>, 'x.sh/' is <<"x.sh", "">>); a place in the file system is
\* the list of names that lead to it from the root.

\* The most parts a configured value has.
MaxParts == 3

PathParts == {"", ".", "..", "x.sh", "etc"}

\* worker.py 69: the values of script_paths that are not blank; app.py
\* 307-308, 355-356, 400-401 store what the form posts.
ScriptValues ==
    UNION {[1..n -> PathParts] : n \in 1..MaxParts} \ {<<"">>}

\* worker.py 104: os.path.basename, what follows the last '/'.
Basename(value) == value[Len(value)]

\* worker.py 62: script_dir.
ScriptDir == <<"data", "scripts">>

\* worker.py 105: os.path.join(script_dir, script_name).
ScriptFullPath(name) == <<"">> \o ScriptDir \o <<name>>

\* The place a path names to the operating system: an empty part and '.'
\* stay, '..' goes to the parent.
RECURSIVE Walk(_, _)
Walk(place, path) ==
    IF path = <<>> THEN place
    ELSE Walk(CASE Head(path) \in {"", "."} -> place
                [] Head(path) = ".." ->
                     IF place = <<>> THEN place
                     ELSE SubSeq(place, 1, Len(place) - 1)
                [] OTHER -> Append(place, Head(path)),
              Tail(path))

Resolve(path) == Walk(<<>>, path)

\* The directories and the files of the machine.
Directories == {<<>>, <<"data">>, ScriptDir, <<"etc">>}

Files == {ScriptDir \o <<"x.sh">>, <<"etc", "x.sh">>}

\* worker.py 107: os.path.exists.
Exists(path) == Resolve(path) \in Directories \cup Files

\* worker.py 104-107, 136-137: the script is looked up by its basename in
\* the script directory, and skipped when nothing is there.
LookupScript ==
    /\ lookup.at = "called"
    /\ lookup' = [lookup EXCEPT
          !.at = IF Exists(ScriptFullPath(Basename(lookup.value)))
                 THEN "found" ELSE "skipped"]
    /\ UNCHANGED <<pipeVars, stageVars, txVars, rsVars, fnVars, up, second>>

\* worker.py 109-112: os.chmod of the full path, 0o755; a failure is
\* logged as a warning.
ChmodScript ==
    /\ lookup.at = "found"
    /\ \E ok \in BOOLEAN :
          lookup' = [lookup EXCEPT
              !.chmod = IF ok
                        THEN <<Resolve(ScriptFullPath(Basename(lookup.value)))>>
                        ELSE <<>>,
              !.at = "executable"]
    /\ UNCHANGED <<pipeVars, stageVars, txVars, rsVars, fnVars, up, second>>

\* worker.py 117-135: subprocess.run of the full path; a directory cannot
\* be executed, and the exception is logged.
ExecuteScript ==
    /\ lookup.at = "executable"
    /\ LET place == Resolve(ScriptFullPath(Basename(lookup.value)))
       IN  lookup' = [lookup EXCEPT
              !.run = IF place \in Files THEN <<place>> ELSE <<>>,
              !.at = "done"]
    /\ UNCHANGED <<pipeVars, stageVars, txVars, rsVars, fnVars, up, second>>

InitLookup ==
    /\ PipelineIdle
    /\ audio = <<>>
    /\ glob = <<>>
    /\ tjob = NoRun
    /\ tpc = "off"
    /\ master = <<>>
    /\ rows = <<>>
    /\ disk = <<>>
    /\ text = <<>>
    /\ tlog = <<>>
    /\ hist = NoHistory
    /\ zip = NoArchive
    /\ dir = NoDirectory
    /\ restore = NotCalled
    /\ costing = NoCosting
    /\ recap = NoRecap
    /\ discord = NoDiscord
    /\ runner = NoRunner
    /\ up = NoUpload
    /\ second = "off"
    /\ lookup \in [value : ScriptValues, chmod : {<<>>}, run : {<<>>},
                    at : {"called"}]

NextLookup ==
    \/ LookupScript
    \/ ChmodScript
    \/ ExecuteScript

SpecLookup == InitLookup /\ [][NextLookup]_vars

\* -------------------------------------------------------- the upload route
\* app.py 720-788: one POST to the upload route, step by step.  The request
\* carries a file (none, one without a name, something that is no zip, a
\* zip that cannot be extracted, a good zip), a campaign or none, and a
\* session number (none, a number, something else).

UploadFiles == {"no_file", "no_name", "not_zip", "bad_zip", "zip"}

SessionNumbers == {"", "7", "seven"}

\* app.py 760: the highest session number of the campaign, <<>> when it has
\* no Session.
MaxSessions == {<<>>, <<0>>, <<4>>}

\* app.py 757-762: the number posted, or one more than the campaign's
\* highest, or 0 for its first Session.
FinalSessionNum(u) ==
    CASE u.session_number = "7" -> <<7>>
      [] u.max_sess = <<>> -> <<0>>
      [] OTHER -> <<u.max_sess[1] + 1>>

\* app.py 785-788: the failure is logged, the upload directory removed and
\* an error returned; rows already committed stay.
Discard(u) == [u EXCEPT !.dir = FALSE, !.at = "failed"]

\* app.py 720-741: a request without file, file name or campaign is
\* turned away; else the upload directory is made.
UploadBegin ==
    /\ up.at = "called"
    /\ up' = IF up.file \in {"no_file", "no_name"} \/ ~up.campaign_id
             THEN [up EXCEPT !.at = "rejected"]
             ELSE [up EXCEPT !.dir = TRUE, !.at = "save"]
    /\ UNCHANGED <<pipeVars, stageVars, txVars, rsVars, fnVars, lookup, second>>

\* app.py 745-750: the file is saved, tested and extracted; each can raise.
UploadExtract ==
    /\ up.at = "save"
    /\ \E saved \in BOOLEAN :
          up' = IF saved /\ up.file = "zip"
                THEN [up EXCEPT !.extracted = TRUE, !.at = "number"]
                ELSE Discard(up)
    /\ UNCHANGED <<pipeVars, stageVars, txVars, rsVars, fnVars, lookup, second>>

\* app.py 753-762: the date is read (parse_session_date raises nothing),
\* the session number is int() of what was posted, or is computed with a
\* query when nothing was posted.
UploadNumber ==
    /\ up.at = "number"
    /\ \E query \in BOOLEAN :
          up' = CASE up.session_number = "seven" -> Discard(up)
                  [] up.session_number = "" /\ ~query -> Discard(up)
                  [] OTHER -> [up EXCEPT
                                   !.final_session_num = FinalSessionNum(up),
                                   !.at = "session"]
    /\ UNCHANGED <<pipeVars, stageVars, txVars, rsVars, fnVars, lookup, second>>

\* app.py 765-777: the Session row is added and committed.
UploadSession ==
    /\ up.at = "session"
    /\ \E commit \in BOOLEAN :
          up' = IF commit
                THEN [up EXCEPT !.session = TRUE, !.at = "job"]
                ELSE Discard(up)
    /\ UNCHANGED <<pipeVars, stageVars, txVars, rsVars, fnVars, lookup, second>>

\* app.py 779-783: the first Job is added and committed, in a transaction
\* of its own.
UploadJob ==
    /\ up.at = "job"
    /\ \E commit \in BOOLEAN :
          up' = IF commit
                THEN [up EXCEPT !.job = TRUE, !.at = "done"]
                ELSE Discard(up)
    /\ UNCHANGED <<pipeVars, stageVars, txVars, rsVars, fnVars, lookup, second>>

InitUpload ==
    /\ PipelineIdle
    /\ audio = <<>>
    /\ glob = <<>>
    /\ tjob = NoRun
    /\ tpc = "off"
    /\ master = <<>>
    /\ rows = <<>>
    /\ disk = <<>>
    /\ text = <<>>
    /\ tlog = <<>>
    /\ hist = NoHistory
    /\ zip = NoArchive
    /\ dir = NoDirectory
    /\ restore = NotCalled
    /\ costing = NoCosting
    /\ recap = NoRecap
    /\ discord = NoDiscord
    /\ runner = NoRunner
    /\ lookup = NoLookup
    /\ second = "off"
    /\ up \in [file : UploadFiles, campaign_id : BOOLEAN,
                session_number : SessionNumbers, max_sess : MaxSessions,
                final_session_num : {<<>>}, dir : {FALSE},
                session : {FALSE}, job : {FALSE}, extracted : {FALSE},
                at : {"called"}]

NextUpload ==
    \/ UploadBegin
    \/ UploadExtract
    \/ UploadNumber
    \/ UploadSession
    \/ UploadJob

SpecUpload == InitUpload /\ [][NextUpload]_vars

\* ------------------------------------------------ a second entry point
\* migrate_sessions.py 4 and db_migrate.py 10 import app, and the import
\* runs app.py to its end: lines 1289-1291 make a JobManager and start it
\* in the importing process, app.debug being false at that point.

\* worker.py 34-38, 24-32: the second JobManager starts with the recovery
\* scan, on the database the server's worker is using.
ImportApp ==
    /\ second = "off"
    /\ events < MaxEvents
    /\ jobs' = [i \in JobIds |-> IF IsStuck(jobs[i]) THEN ResetJob(jobs[i])
                                 ELSE jobs[i]]
    /\ second' = "polling"
    /\ events' = events + 1
    /\ UNCHANGED <<sessions, pc, cur, wlogs, stageVars, txVars, rsVars,
                   fnVars, lookup, up>>

\* worker.py 40-49: the second JobManager marks the oldest pending Job as
\* processing and takes it.
SecondClaim ==
    /\ second = "polling"
    /\ \E j \in OldestPending :
          jobs' = [jobs EXCEPT ![j].status = ClaimedStatus]
    /\ second' = "working"
    /\ UNCHANGED <<sessions, pc, cur, wlogs, events, stageVars, txVars,
                   rsVars, fnVars, lookup, up>>

\* worker.py 20: the JobManager is a daemon thread and ends with the
\* process that imported app, whatever it was doing.
SecondExit ==
    /\ second \in {"polling", "working"}
    /\ second' = "off"
    /\ UNCHANGED <<pipeVars, stageVars, txVars, rsVars, fnVars, lookup, up>>

NextEntry ==
    \/ Next
    \/ ImportApp
    \/ SecondClaim
    \/ SecondExit

SpecEntry == Init /\ [][NextEntry]_vars

\* --------------------------------------------------- the worker, scheduled
\* worker.py 34-54: the thread of the JobManager takes its next step
\* whenever it has one; each stage handler comes to an end, and a process
\* that died is started again.
WorkerStep ==
    \/ ResetStuckJobs
    \/ Claim
    \/ Sleep
    \/ Wake
    \/ Begin
    \/ TranscribeStart
    \/ TranscribeRun
    \/ Summarize
    \/ ScriptsStart
    \/ ScriptsEnd
    \/ PostDiscord
    \/ HandleError

SpecLive == Init /\ [][Next]_vars /\ WF_vars(WorkerStep)

\* ================================================================ claims
Last(s) == s[Len(s)]

IsPrefix(s, u) == Len(s) <= Len(u) /\ SubSeq(u, 1, Len(s)) = s

Processing(js) == {i \in 1..Len(js) : js[i].status = "processing"}

SummarizeJobs(js, sid) ==
    {i \in 1..Len(js) : js[i].session = sid /\ js[i].step = <<"summarize">>}

\* The worker is inside process_job for Job cur.
InProcessJob ==
    pc \in {"begin", "t_start", "t_run", "summary", "scripts", "s_run",
            "discord", "raise"}

\* The step on which process_job returns to the loop of run().
ProcessJobReturns == InProcessJob /\ pc' = "poll"

\* C1: in every reachable state at most one Job has status 'processing'.
C1_AtMostOneProcessing == Cardinality(Processing(jobs)) <= 1

\* C2: when process_job returns, for whatever step, the Job it was given
\* has status 'completed' or 'error'.
C2_ClaimedJobEndsTerminal ==
    [][ProcessJobReturns => jobs'[cur].status \in {"completed", "error"}]_vars

\* C3: a step adds a 'summarize' Job to a Session only if the Session had
\* none before the step.
C3_ChainsOnlyFirstSummarize ==
    [][\A sid \in SessionIds :
          Cardinality(SummarizeJobs(jobs', sid))
            > Cardinality(SummarizeJobs(jobs, sid))
          => SummarizeJobs(jobs, sid) = {}]_vars

\* C4: reset_stuck_jobs turns every 'processing' Job into a 'pending' Job
\* whose log gained the restart marker, leaves no Job 'processing', and
\* leaves every other Job, and every other field, as it was.
C4_ResetStuckJobs ==
    [][(pc = "boot" /\ pc' = "poll") =>
          /\ Len(jobs') = Len(jobs)
          /\ Processing(jobs') = {}
          /\ \A i \in JobIds :
                IF jobs[i].status = "processing"
                THEN jobs'[i] = [jobs[i] EXCEPT
                                   !.status = "pending",
                                   !.logs = Append(@, "SystemRestart")]
                ELSE jobs'[i] = jobs[i]]_vars

\* A Job that recovery has just reset is waiting, the marker last in its log.
C4_Witness ==
    /\ pc = "poll"
    /\ \E i \in JobIds :
          /\ jobs[i].status = "pending"
          /\ Last(jobs[i].logs) = "SystemRestart"

\* C5: the except clause of process_job leaves the Job 'error', the Session
\* 'Error', and the stored log extended: what was stored is kept and the
\* failure entry comes last.
C5_ErrorKeepsLog ==
    [][(pc = "raise" /\ pc' = "poll") =>
          /\ jobs'[cur].status = "error"
          /\ sessions'[jobs[cur].session].status = "Error"
          /\ IsPrefix(jobs[cur].logs, jobs'[cur].logs)
          /\ Last(jobs'[cur].logs) = "CRITICAL"]_vars

\* C6: the Job the worker claims was 'pending' and no 'pending' Job was
\* created before it.
C6_ClaimsOldestPending ==
    [][(pc = "poll" /\ pc' = "begin") =>
          /\ jobs[cur'].status = "pending"
          /\ \A k \in JobIds :
                jobs[k].status = "pending"
                => jobs[cur'].created_at <= jobs[k].created_at]_vars

\* The worker has claimed a Job that recovery had returned to 'pending',
\* ahead of a younger Job that is still waiting.
C6_Witness ==
    /\ pc = "begin"
    /\ \E i \in 1..Len(jobs[cur].logs) : jobs[cur].logs[i] = "SystemRestart"
    /\ \E k \in JobIds :
          /\ jobs[k].status = "pending"
          /\ jobs[k].created_at > jobs[cur].created_at

\* C7: while the worker is inside process_job, from before the stage starts
\* until it returns, the stored status of the Job is 'processing'.
C7_ProcessingDuringStage ==
    InProcessJob => jobs[cur].status = "processing"

\* C8: the step that ends a successful single-speaker transcription adds no
\* Job, leaves the Job 'completed' and the Session 'Ready'.
C8_TargetedTranscription ==
    [][(pc = "t_run" /\ pc' = "poll"
        /\ TargetUser(jobs[cur].step) # None) =>
          /\ Len(jobs') = Len(jobs)
          /\ jobs'[cur].status = "completed"
          /\ sessions'[jobs[cur].session].status = "Ready"]_vars

\* A single-speaker Job is 'completed' and its Session 'Ready'.
C8_Witness ==
    \E i \in JobIds :
        /\ TargetUser(jobs[i].step) # None
        /\ jobs[i].status = "completed"
        /\ sessions[jobs[i].session].status = "Ready"

\* C9: retry_job on Job j leaves j 'pending' with the retry marker added to
\* its log and its other fields as they were, its Session 'Processing', and
\* every other Job as it was; no Job is added.
C9_RetryJob ==
    [][\A j \in JobIds :
          RetryJob(j) =>
            /\ Len(jobs') = Len(jobs)
            /\ jobs'[j] = [jobs[j] EXCEPT
                             !.status = "pending",
                             !.logs = Append(@, "RetryByUser")]
            /\ sessions'[jobs[j].session].status = "Processing"
            /\ \A k \in JobIds : k # j => jobs'[k] = jobs[k]]_vars

\* A retried Job waits, the marker last in a log that held entries before,
\* beside another Job.
C9_Witness ==
    \E j \in JobIds :
        /\ jobs[j].status = "pending"
        /\ Len(jobs[j].logs) > 1
        /\ Last(jobs[j].logs) = "RetryByUser"
        /\ sessions[jobs[j].session].status = "Processing"
        /\ Len(jobs) > 1

\* C10: a Job that is 'error' is still 'error' after every step other than
\* retry_job on it, and the worker never holds an 'error' Job.
C10_ErrorStaysUntilRetry ==
    [][/\ \A j \in JobIds :
            (jobs[j].status = "error" /\ ~RetryJob(j))
            => (jobs'[j].status = "error" /\ cur' # j)
       /\ (cur' # 0 => jobs'[cur'].status # "error")]_vars

\* A Job is 'error', recovery has run since, and the worker holds another
\* Job.
C10_Witness ==
    \E j \in JobIds :
        /\ jobs[j].status = "error"
        /\ cur # 0 /\ cur # j
        /\ \E i \in 1..Len(jobs[cur].logs) :
              jobs[cur].logs[i] = "SystemRestart"

\* Any one of the request handlers of app.py.
ForegroundStep ==
    \/ \E u \in Uploads : Upload(u)
    \/ \E sid \in SessionIds, target \in Speakers \cup {None} :
          Retranscribe(sid, target)
    \/ \E sid \in SessionIds : RerunScripts(sid)
    \/ \E sid \in SessionIds : RegenerateSummary(sid)
    \/ \E sid \in SessionIds : QueuePostDiscord(sid)
    \/ \E sid \in SessionIds : SaveRecap(sid)
    \/ \E j \in JobIds : RetryJob(j)

\* C11: no request handler, retry_job and the session actions included,
\* changes the status of a Job that is 'processing'.
C11_ForegroundLeavesProcessing ==
    [][ForegroundStep =>
         \A j \in JobIds :
            jobs[j].status = "processing" => jobs'[j].status = "processing"]_vars

Finished(j) == jobs[j].status \in {"completed", "error"}

C13_SummarizeCompletes ==
    \A j \in JobIds :
        ( /\ StepTag(jobs[j].step) = "summarize"
          /\ Finished(j)
          /\ sessions[jobs[j].session].transcript
          /\ env.backend = "ok" )
        => /\ jobs[j].status = "completed"
           /\ sessions[jobs[j].session].status = "Completed"
           /\ sessions[jobs[j].session].summary

\* The step on which run_transcription sorts, joins and saves.
MergeStep == tpc = "loop" /\ tpc' = "done"

Min(S) == CHOOSE m \in S : \A n \in S : m <= n

IsAscending(list) ==
    \A i, j \in DOMAIN list : i < j => list[i][1] <= list[j][1]

\* The pairs of a pool start by start, the earliest start first, the pairs
\* of one start in the order the pool has them.
RECURSIVE MergeFrom(_, _)
MergeFrom(pool, starts) ==
    IF starts = {} THEN <<>>
    ELSE SelectSeq(pool, LAMBDA e : e[1] = Min(starts))
         \o MergeFrom(pool, starts \ {Min(starts)})

ChronologicalMerge(pool) ==
    MergeFrom(pool, {pool[i][1] : i \in DOMAIN pool})

\* C14: the master transcript lists every pair appended during the run,
\* whatever order they were appended in, by ascending start time, and pairs
\* of equal start time in the order they were appended.
C14_MasterTranscriptOrder ==
    [][MergeStep =>
         /\ IsAscending(master')
         /\ master' = ChronologicalMerge(master)
         /\ text' = LinesOf(master')]_vars

\* A finished run whose list holds two speakers' lines of one start time.
C14_Witness ==
    /\ tpc = "done"
    /\ \E i, j \in DOMAIN master :
          i < j /\ master[i][1] = master[j][1]
                /\ master[i][2][2] # master[j][2][2]

FullAndClean(run) == run.full /\ run.clean

\* C15: a full run without failure writes the transcript text that the
\* full run without failure before it wrote, whatever order either took
\* the files in.
C15_OrderInvariant ==
    [][(MergeStep /\ tjob.target = None /\ tjob.clean /\ FullAndClean(hist))
         => text' = text]_vars

\* C16: the Session never has two Transcript rows of one speaker.
C16_OneRowPerSpeaker ==
    \A i, j \in DOMAIN rows : rows[i].username = rows[j].username => i = j

Logged(kind, file) == \E i \in DOMAIN tlog : tlog[i] = <<kind, file>>

\* A file has been transcribed whose speaker's row was made for another
\* file: the row was found and overwritten.
C16_Witness ==
    \E f \in DOMAIN audio :
        /\ Logged("Completed", f)
        /\ FirstRow(rows, Username(f)) # 0
        /\ rows[FirstRow(rows, Username(f))].filename # f

\* The pairs of a file's segments that have text.
SpokenEntries(f) ==
    LET spoken == SelectSeq(audio[f], LAMBDA seg : Strip(seg.text) # <<>>)
    IN [i \in DOMAIN spoken |->
          <<spoken[i].start,
            Line(spoken[i].start, Username(f), Strip(spoken[i].text))>>]

RECURSIVE Pooled(_)
Pooled(order) ==
    IF order = <<>> THEN <<>>
    ELSE SpokenEntries(Head(order)) \o Pooled(Tail(order))

FullRunDone ==
    tpc = "done" /\ tjob.target = None /\ tjob.clean

C18_FileMatchesRow ==
    \A i \in DOMAIN rows :
        rows[i].username \in DOMAIN disk
          => disk[rows[i].username] = rows[i].content

C20_SmartExtract ==
    [][\A t \in RestoreSpeakers :
         (SmartRestore(t) /\ restore'.from = "archive" /\ restore'.result) =>
            LET names == zip.names
                hits == {i \in DOMAIN names : Matches(t, names[i])}
            IN /\ dir'.names = dir.names \cup restore'.extracted
               /\ IF hits # {}
                  THEN /\ Cardinality(restore'.extracted) = 1
                       /\ restore'.extracted = {names[Min(hits)]}
                  ELSE restore'.extracted = Range(names)]_vars

\* A restore for a speaker took one member out of an archive that holds
\* other members too.
C20_Witness ==
    /\ restore.from = "archive"
    /\ restore.result
    /\ restore.target \in RestoreSpeakers
    /\ Cardinality(restore.extracted) = 1
    /\ Len(zip.names) > 1

\* The transcription stage is at work on a Session with no audio file in
\* its directory.
RunsWithoutAudio == pc = "t_run" /\ ~sessions[CurSession].flac

\* C21: the transcription stage never runs on a Session whose audio has
\* been removed unless a restore from the archive was attempted before.
C21_RestoreBeforeTranscribe == RunsWithoutAudio => restore # NotCalled

\* The restore of a re-transcribe request found no audio: none in the
\* directory, and no archive or nothing extracted from it.
RestoreFailed ==
    \/ restore'.from = "nowhere"
    \/ restore'.from = "archive" /\ restore'.extracted = {}

AudioRemoved == \E f \in dir.names : EndsWithFlac(f) /\ f \notin dir'.names

\* C23: audio files leave the working directory only when archival is
\* enabled and an archive of the upload exists.
C23_RemovalNeedsArchival ==
    [][AudioRemoved => (env.archive_zip /\ zip.exists)]_vars

\* A rate setting that float() takes.
WellFormed(setting) == Float(Strip(ConfigGet(setting))) # ValueError

RateOf(setting) == Float(Strip(ConfigGet(setting)))

\* C24: with two numeric rates calculate_cost returns prompt tokens times
\* the input rate plus completion tokens times the output rate, per
\* million tokens, to the nearest millionth; a million tokens each way at
\* 2.0 and 6.0 cost 8.0.
C24_CostFormula ==
    (costing.at = "returned" /\ WellFormed(costing.llm_input_cost)
       /\ WellFormed(costing.llm_output_cost))
    => LET exact == costing.prompt_tokens * RateOf(costing.llm_input_cost)
                    + costing.completion_tokens
                        * RateOf(costing.llm_output_cost)
       IN  /\ costing.cost * 100 - exact \in -50..50
           /\ ( /\ costing.prompt_tokens = 1000000
                /\ costing.completion_tokens = 1000000
                /\ costing.llm_input_cost = <<"2", ".", "0">>
                /\ costing.llm_output_cost = <<"6", ".", "0">> )
              => costing.cost = 8000000

\* The million tokens each way at 2.0 and 6.0 have been costed.
C24_Witness ==
    /\ costing.at = "returned"
    /\ costing.prompt_tokens = 1000000
    /\ costing.completion_tokens = 1000000
    /\ costing.llm_input_cost = <<"2", ".", "0">>
    /\ costing.llm_output_cost = <<"6", ".", "0">>

\* C25: every call of calculate_cost returns; a rate setting that is not a
\* number adds nothing, and the term of the other rate is still counted.
C25_MalformedRateCountsZero ==
    /\ costing.at = "called" => ENABLED CalculateCost
    /\ costing.at = "returned" =>
          LET term(tokens, setting) ==
                  IF WellFormed(setting) THEN tokens * RateOf(setting)
                  ELSE 0
              exact == term(costing.prompt_tokens, costing.llm_input_cost)
                       + term(costing.completion_tokens,
                              costing.llm_output_cost)
          IN  costing.cost * 100 - exact \in -50..50

\* A call with a malformed input rate has returned the cost of the
\* completion tokens alone.
C25_Witness ==
    /\ costing.at = "returned"
    /\ ~WellFormed(costing.llm_input_cost)
    /\ WellFormed(costing.llm_output_cost)
    /\ costing.cost > 0

\* run_summary goes past its check of the transcript file and calls the
\* provider.
ProviderCalled ==
    pc = "summary" /\ pc' # "summary" /\ sessions[CurSession].transcript

\* C26: each call of a provider by the summary stage adds exactly one
\* LLMLog row, whatever the call comes to, and no step changes or removes
\* a row that is there.
C26_OneRowPerCall ==
    [][ /\ ProviderCalled => Len(llmlog') = Len(llmlog) + 1
        /\ IsPrefix(llmlog, llmlog') ]_vars

\* The provider answered with an error status or with no text.
BadResponse == env.backend \in {"http_error", "empty"}

\* C27: when the provider, whichever it is, answers with an error status
\* or with no text, run_summary does not return and the Session gets no
\* summary.
C27_BadResponseRaises ==
    (BadResponse /\ cur # 0 /\ sessions[CurSession].transcript)
        => pc # "returned" /\ ~sessions[CurSession].summary

\* Where the label of a key stands in the stored text.
LabelAt(key) == CHOOSE i \in DOMAIN recap.text : recap.text[i] = Labels[key]

\* C28: the stored summary text starts with the header, its fields in the
\* order provider, model, API time, tokens, and parse_llm_stats reads from
\* the stored text the provider, model, API time and token texts as they
\* were written.
C28_HeaderRoundTrip ==
    recap.at = "parsed" =>
        /\ IsPrefix(<<"## ">>, recap.text)
        /\ \A key \in DOMAIN Labels :
              \E i \in DOMAIN recap.text : recap.text[i] = Labels[key]
        /\ LabelAt("provider") < LabelAt("model")
        /\ LabelAt("model") < LabelAt("api_time")
        /\ LabelAt("api_time") < LabelAt("tokens")
        /\ recap.parsed.provider = <<recap.provider>>
        /\ recap.parsed.model = <<recap.model>>
        /\ recap.parsed.api_time = FormatDuration(recap.duration)
        /\ recap.parsed.tokens =
              TokensField(recap.prompt, recap.completion, recap.total)

\* The messages posted for paragraph i, in the order they were sent, put
\* end to end.
RECURSIVE PostedFor(_, _)
PostedFor(msgs, i) ==
    IF msgs = <<>> THEN <<>>
    ELSE IF Head(msgs).para = i
    THEN Join(Head(msgs).content, PostedFor(Tail(msgs), i))
    ELSE PostedFor(Tail(msgs), i)

\* C29: no message is longer than 1900 characters and the messages follow
\* the order of the paragraphs; once send_discord has returned, every
\* paragraph that is not blank has been sent, its messages put end to end
\* being the paragraph, and nothing has been sent for a blank one.
C29_ParagraphsInOrder ==
    /\ \A k \in DOMAIN discord.posted :
          Size(discord.posted[k].content) <= MessageCeiling
    /\ \A k \in 1..(Len(discord.posted) - 1) :
          discord.posted[k].para <= discord.posted[k + 1].para
    /\ (discord.at = "returned" /\ discord.webhook_url) =>
          LET ps == Paragraphs(discord.summary_text)
          IN  \A i \in DOMAIN ps :
                 PostedFor(discord.posted, i)
                    = IF IsBlank(ps[i]) THEN <<>> ELSE ps[i]

\* A summary of a blank paragraph between a short one and one of more than
\* 3800 characters has been sent in four messages after the thread's.
C29_Witness ==
    /\ discord.at = "returned"
    /\ Len(discord.posted) = 5
    /\ \E i \in DOMAIN Paragraphs(discord.summary_text) :
          IsBlank(Paragraphs(discord.summary_text)[i])

\* The entries of the Job log that tell what became of a script.
ResultEntries == {"Skipping", "Finished", "Failed", "ScriptError"}

\* The entry a script's result calls for.
EntryFor(outcome) ==
    CASE outcome = "exit0" -> "Finished"
      [] outcome = "exit1" -> "Failed"
      [] outcome = "not_found" -> "Skipping"
      [] OTHER -> "ScriptError"

\* The results in the Job log, in the order they were written.
RECURSIVE Results(_)
Results(logs) ==
    IF logs = <<>> THEN <<>>
    ELSE IF Head(logs).entry \in ResultEntries
    THEN <<Head(logs)>> \o Results(Tail(logs))
    ELSE Results(Tail(logs))

\* The Job has ended 'completed' with one result for each script of the
\* list, in list order, 'Finished' for an exit 0 and 'Failed' for another
\* exit code.
AllScriptsAttempted ==
    /\ runner.status = "completed"
    /\ Results(runner.logs)
         = [k \in DOMAIN runner.scripts |->
               [entry |-> EntryFor(runner.scripts[k]), script |-> k]]

\* The input files were staged and the loop over the scripts was entered.
Staged ==
    \E i \in DOMAIN runner.logs : runner.logs[i].entry = "Executing"

C31_StagedFilesRemoved ==
    runner.at \in {"returned", "raised", "ended"}
        => runner.wrote \cap runner.present = {}

\* The place is a file directly inside the script directory.
InScriptDir(place) ==
    /\ Len(place) = Len(ScriptDir) + 1
    /\ SubSeq(place, 1, Len(ScriptDir)) = ScriptDir
    /\ place \in Files

\* C32: whatever the configured value (absolute, with '../' parts, '..'),
\* every place the runner makes executable or runs is a file directly
\* inside the script directory.
C32_OnlyInsideScriptDir ==
    \A i \in DOMAIN (lookup.chmod \o lookup.run) :
        InScriptDir((lookup.chmod \o lookup.run)[i])

\* C33: an upload that has failed has left no upload directory, no Session
\* row and no Job row; and whenever a Session or a Job row of the upload
\* exists, the archive was extracted before.
C33_FailedUploadLeavesNothing ==
    /\ up.at \in {"failed", "rejected"}
          => ~up.dir /\ ~up.session /\ ~up.job
    /\ (up.session \/ up.job) => up.extracted

\* C34: a Job's log is append-only: in every step, whoever takes it, the
\* log stored before is a prefix of the log stored after.
C34_LogAppendOnly ==
    [][\A i \in JobIds : IsPrefix(jobs[i].logs, jobs'[i].logs)]_vars

\* The server's worker is alive and has a Job in hand.
Executing == pc \notin {"boot", "poll", "sleep"} /\ cur \in JobIds

\* C35: while the server's worker is executing a Job and stays alive, no
\* recovery scan resets that Job: none of the repository's entry points
\* starts a second JobManager beside it.
C35_NoScanBesideLiveWorker ==
    [][(Executing /\ pc' # "boot" /\ jobs[cur].status = "processing")
          => ~(/\ jobs'[cur].status = "pending"
               /\ jobs'[cur].logs = Append(jobs[cur].logs, "SystemRestart"))
      ]_vars

\* The Jobs of a Session.
JobsOf(sid) == {i \in JobIds : jobs[i].session = sid}

\* C36: when every Job of a Session is 'completed' or 'error', the Session
\* is not 'Processing' nor 'Analyzing'.
C36_SettledSessionStatus ==
    \A sid \in SessionIds :
        (\A i \in JobsOf(sid) : jobs[i].status \in {"completed", "error"})
            => sessions[sid].status \notin {"Processing", "Analyzing"}

\* C37: after a Job that ran the campaign's scripts has completed, cleanup
\* included, a summary regenerated for a Session that still has transcript
\* text does not fail with 'Transcript file not found'.
C37_TranscriptFoundAfterScripts ==
    (runner.status = "completed" /\ runner.transcript_text)
        => runner.at # "not_found"

\* The lines of a transcript that are not the speaker's.
LinesOfOthers(lines, speaker) ==
    SelectSeq(lines, LAMBDA line : line[2] # speaker)

\* C38: every step of a run for one target speaker leaves the Transcript
\* rows of the other speakers as they were, and the other speakers' lines
\* of the Session's transcript text as they were.
C38_TargetedRunFrame ==
    [][(tpc = "loop" /\ tjob.target # None /\ (glob' # glob \/ tpc' # tpc))
          => /\ \A i \in DOMAIN rows :
                   rows[i].username # tjob.target
                     => i \in DOMAIN rows' /\ rows'[i] = rows[i]
             /\ LinesOfOthers(text', tjob.target)
                  = LinesOfOthers(text, tjob.target)]_vars

\* C39: whenever the restore check for a target speaker reports success,
\* the Session's directory holds an audio file whose speaker name, as the
\* transcription reads it from the file name, is the target.
C39_RestoredFileIsTargets ==
    [][\A t \in RestoreSpeakers :
         (SmartRestore(t) /\ restore'.result) =>
            \E f \in dir'.names : EndsWithFlac(f) /\ Username(f) = t]_vars

\* The most Job rows a behaviour holds: the upload's Job, the summarize
\* Jobs chained to it, and one row for each re-queue.
MaxJobs == 2 * MaxEvents + 2

\* The worker has just claimed the Job.
Claimed(j) == pc = "begin" /\ cur = j

\* C40: with the worker scheduled fairly and every stage handler coming to
\* an end, every Job that is 'pending' is eventually claimed.
C40_PendingEventuallyClaimed ==
    \A j \in 1..MaxJobs :
        (j \in JobIds /\ jobs[j].status = "pending") ~> Claimed(j)

====
